---- MODULE Spec2Model ----
(***************************************************************************)
(* Tender / bid service of avito-tender: the versioned-entity protocol     *)
(* (New, Edit, SetStatus, Rollback), the decision quorum of                *)
(* Bid.SubmitDecision and the transaction each service operation runs in.  *)
(*                                                                         *)
(* A request is executed by a worker p.  pc[p] is the storage or service   *)
(* call the operation is about to make (a label of Flow(op)); every call   *)
(* is one action.  The committed tables are the variables tender, bid,     *)
(* rollback_tender, rollback_bid, decision, review; tx[p] is the pgx       *)
(* transaction of the request with the rows it has written and not yet     *)
(* committed.                                                              *)
(***************************************************************************)
EXTENDS Integers, Sequences, FiniteSets, TLC

\* ------------------------------------------------------------------ bounds
MaxNew == 1           \* entities Tender.New / Bid.New create
MaxRows == 2          \* rows of the tender / bid table (Rollback inserts rows too)
MaxVersion == 3       \* Edit and Rollback are called on versions below it
MaxReviews == 1       \* reviews Bid.Feedback stores
MaxDecisions == 4     \* decisions on a bid, where the quorum is computed alone
MaxOrgSize == 5       \* size of the organization, where the quorum is computed alone

\* ------------------------------------------------------ program constants
QUORUM_SIZE == 3

Null == "<nil>"       \* a nil pointer of a patch

TenderCreated == "Created"
TenderPublished == "Published"
TenderClosed == "Closed"
TenderStatuses == {TenderCreated, TenderPublished, TenderClosed}

BidCreated == "Created"
BidPublished == "Published"
BidCanceled == "Canceled"
BidStatuses == {BidCreated, BidPublished, BidCanceled}

User == "User"
Organization == "Organization"

Approved == "Approved"
Rejected == "Rejected"
DecisionTypes == {Approved, Rejected}

ErrNil == "nil"
ErrUserNotFound == "user not found"
ErrOrganizationNotFound == "organization not found"
ErrTenderNotFound == "tender not found"
ErrBidNotFound == "bid not found"
ErrVersionNotFound == "version not found"
ErrAuthorNotFound == "author not found"
ErrNotEnoughPrivileges == "not enought privileges"
ErrInternal == "internal"   \* any error wrapped with fmt.Errorf("%s: %w", op, err)

\* ---------------------------------------------------------- identity store
\* The employee, organization and organization_responsible tables.  No
\* operation of the services writes them.
employee ==
    { [id |-> "e1", username |-> "u1"], [id |-> "e2", username |-> "u2"],
      [id |-> "e3", username |-> "u3"], [id |-> "e4", username |-> "u4"] }
organization == {"o1", "o2", "o3"}      \* no employee is responsible for o3
organization_responsible ==
    { [organization_id |-> "o1", user_id |-> "e1"],
      [organization_id |-> "o1", user_id |-> "e2"],
      [organization_id |-> "o1", user_id |-> "e3"],
      [organization_id |-> "o2", user_id |-> "e4"] }

\* The clients of a run edit tenders, edit bids, or decide on bids.
Workloads == {"tender", "bid", "decision"}

Procs == {"p1", "p2", "p3"}   \* workers (one per request in flight)
SerialProcs == {"p1"}         \* the worker of the serial specification
Pair == {"p1", "p2"}          \* the workers of two requests at the same time

VARIABLES
    tender, rollback_tender, bid, rollback_bid, decision, review,  \* committed tables
    tx,          \* tx[p]: the transaction of p's request
    pc,          \* pc[p]: "idle", a label of Flow(op), "defer" or "done"
    loc,         \* loc[p]: arguments, local variables and result of p's request
    pre,         \* pre[p]: the committed tables when p's request was called
    tenderSrv,   \* the TenderService the Bid service was constructed with
    workload,    \* the operations the clients of this run call
    submitted    \* history: the last decision each user submitted with success

vars == <<tender, rollback_tender, bid, rollback_bid, decision, review,
          tx, pc, loc, pre, tenderSrv, workload, submitted>>
env == <<tenderSrv, workload, submitted>>
tables == <<tender, rollback_tender, bid, rollback_bid, decision, review>>

\* ------------------------------------------------------------------ models
NoTender ==   \* models.Tender{}
    [Id |-> 0, OrgId |-> "", Name |-> "", Desc |-> "", ServiceType |-> "",
     Status |-> "", Version |-> 0, CreatedAt |-> 0]
NoBid ==      \* models.Bid{}
    [Id |-> 0, TenderId |-> 0, Name |-> "", Desc |-> "", AuthorType |-> "",
     AuthorId |-> "", Version |-> 0, Status |-> "", CreatedAt |-> 0]
NoPatch == [Name |-> Null, Desc |-> Null, ServiceType |-> Null]

\* A conversion that publishes the tender at once.
ToTenderPublished(tenderNew) ==
    [Id |-> 0, OrgId |-> tenderNew.OrgId, Name |-> tenderNew.Name,
     Desc |-> tenderNew.Desc, ServiceType |-> tenderNew.ServiceType,
     Status |-> TenderPublished, Version |-> 1, CreatedAt |-> 0]

ToTender(tenderNew) ==
    [Id |-> 0, OrgId |-> tenderNew.OrgId, Name |-> tenderNew.Name,
     Desc |-> tenderNew.Desc, ServiceType |-> tenderNew.ServiceType,
     Status |-> TenderCreated, Version |-> 1, CreatedAt |-> 0]

ToBid(bidNew) ==
    [Id |-> 0, TenderId |-> bidNew.TenderId, Name |-> bidNew.Name,
     Desc |-> bidNew.Desc, AuthorType |-> bidNew.AuthorType,
     AuthorId |-> bidNew.AuthorId, Version |-> 1, Status |-> BidCreated,
     CreatedAt |-> 0]

\* A patch that assigns every field, the nil ones too.
TenderPatchAll(t, patch) ==
    [t EXCEPT !.Name = patch.Name, !.Desc = patch.Desc, !.ServiceType = patch.ServiceType]

TenderPatch(t, patch) ==
    [t EXCEPT !.Name = IF patch.Name # Null THEN patch.Name ELSE @,
              !.Desc = IF patch.Desc # Null THEN patch.Desc ELSE @,
              !.ServiceType = IF patch.ServiceType # Null THEN patch.ServiceType ELSE @]

BidPatch(b, patch) ==
    [b EXCEPT !.Name = IF patch.Name # Null THEN patch.Name ELSE @,
              !.Desc = IF patch.Desc # Null THEN patch.Desc ELSE @]

\* ------------------------------------------------------------ transactions
NoTx ==
    [state |-> "none", tender |-> {}, rollback_tender |-> {}, bid |-> {},
     rollback_bid |-> {}, decision |-> {}, review |-> {}]

NoPre ==
    [tender |-> {}, rollback_tender |-> {}, bid |-> {}, rollback_bid |-> {},
     decision |-> {}, review |-> {}]

Committed ==
    [tender |-> tender, rollback_tender |-> rollback_tender, bid |-> bid,
     rollback_bid |-> rollback_bid, decision |-> decision, review |-> review]

TxOpen(p) == tx[p].state = "open"

ById(r) == r.Id
ByUserBid(r) == <<r.UserId, r.BidId>>

\* The rows a statement of the transaction sees: the committed rows, with
\* the rows the transaction wrote in place of those of the same key.
Overlay(base, written) ==
    written \cup {r \in base : \A w \in written : ById(w) # ById(r)}
OverlayDecision(base, written) ==
    written \cup {r \in base : \A w \in written : ByUserBid(w) # ByUserBid(r)}

ViewTender(p) == Overlay(tender, tx[p].tender)
ViewBid(p) == Overlay(bid, tx[p].bid)
ViewDecision(p) == OverlayDecision(decision, tx[p].decision)
\* A history that holds only what the transaction wrote.
ViewRollbackTenderWritten(p) == tx[p].rollback_tender
ViewRollbackTender(p) == rollback_tender \cup tx[p].rollback_tender
ViewRollbackBid(p) == rollback_bid \cup tx[p].rollback_bid
ViewReview(p) == review \cup tx[p].review

\* Row locks.  An UPDATE of a row waits while another open transaction has
\* written the row; an INSERT waits while another open transaction has
\* inserted the same key.
TenderLocked(p, id) ==
    \E q \in Procs \ {p} : TxOpen(q) /\ \E r \in tx[q].tender : r.Id = id
BidLocked(p, id) ==
    \E q \in Procs \ {p} : TxOpen(q) /\ \E r \in tx[q].bid : r.Id = id
TenderSnapshotPending(p, t) ==
    \E q \in Procs \ {p} :
        TxOpen(q) /\ \E r \in tx[q].rollback_tender : r.Id = t.Id /\ r.Version = t.Version
BidSnapshotPending(p, b) ==
    \E q \in Procs \ {p} :
        TxOpen(q) /\ \E r \in tx[q].rollback_bid : r.Id = b.Id /\ r.Version = b.Version

\* uuid_generate_v4(): an id no row of the table has, committed or not.
FreshId(rows) == CHOOSE i \in 1..(Cardinality(rows) + 1) : \A r \in rows : r.Id # i
AllTenderRows == tender \cup UNION {tx[q].tender : q \in Procs}
AllBidRows == bid \cup UNION {tx[q].bid : q \in Procs}
AllReviewRows == review \cup UNION {tx[q].review : q \in Procs}

\* CURRENT_TIMESTAMP as a logical clock: the number of rows inserted so far.
Now ==
    1 + Cardinality({r.Id : r \in AllTenderRows}) + Cardinality({r.Id : r \in AllBidRows})
      + Cardinality({r.Id : r \in AllReviewRows})

\* ------------------------------------------------------- identity queries
VerifyUser(username) == \E e \in employee : e.username = username
VerifyUserId(userId) == \E e \in employee : e.id = userId
\* A check that takes every id for that of an organization.
VerifyOrgIdOfAny(orgId) == TRUE
VerifyOrgId(orgId) == orgId \in organization
HasUserId(username) == VerifyUser(username)
EmployeeId(username) == (CHOOSE e \in employee : e.username = username).id
\* A permission that asks whether the user is responsible for any organization.
VerifyUserPermissionOfAny(username, orgId) ==
    \E r \in organization_responsible :
        \E e \in employee : e.username = username /\ e.id = r.user_id

VerifyUserPermission(username, orgId) ==
    \E r \in organization_responsible :
        /\ r.organization_id = orgId
        /\ \E e \in employee : e.username = username /\ e.id = r.user_id
CountResponsible(orgId) ==
    Cardinality({r \in organization_responsible :
                    /\ r.organization_id = orgId
                    /\ orgId \in organization
                    /\ \E e \in employee : e.id = r.user_id})

\* ------------------------------------------------------------- operations
\* The calls of each service operation, in the order of its code.
Flow(op) ==
    CASE op = "Tender.New" -> <<"Begin", "Validate", "InsertTender", "Commit">>
      [] op = "Tender.Status" -> <<"Begin", "Validate", "Tender", "Permission", "Commit">>
      [] op = "Tender.SetStatus" ->
            <<"Begin", "Validate", "Tender", "Permission", "TenderSetStatus", "Commit">>
      [] op = "Tender.Edit" ->
            <<"Begin", "Validate", "Tender", "Permission", "UpdateTender", "SaveTender",
              "Commit">>
      [] op = "Tender.Rollback" ->
            <<"Begin", "Validate", "Tender", "Permission", "SaveTender", "RecoverTender",
              "InsertTender", "Commit">>
      [] op = "Bid.New" -> <<"Begin", "ValidateAuthorId", "InsertBid", "Commit">>
      [] op = "Bid.SubmitDecision" ->
            <<"Begin", "Validate", "Bid", "TenderSrv", "Permission", "UserId",
              "InsertDecision", "Decisions", "OrgSize", "Summary", "UpdateBid", "Commit">>
      [] op = "Bid.List" -> <<"Begin", "Validate", "TenderSrv", "TenderBids", "Commit">>
      [] op = "Bid.Status" -> <<"Begin", "Validate", "Bid", "Authorize", "Commit">>
      [] op = "Bid.SetStatus" ->
            <<"Begin", "Validate", "Bid", "Authorize", "BidSetStatus", "Commit">>
      [] op = "Bid.Edit" ->
            <<"Begin", "Validate", "Bid", "Authorize", "UpdateBid", "SaveBid", "Commit">>
      [] op = "Bid.Rollback" ->
            <<"Begin", "Validate", "Bid", "Authorize", "SaveBid", "RecoverBid",
              "InsertBid", "Commit">>
      [] op = "Bid.Reviews" ->
            <<"Begin", "Validate", "ValidateAuthor", "TenderSrv", "Permission", "Reviews",
              "Commit">>
      [] op = "Bid.Feedback" ->
            <<"Begin", "Validate", "Bid", "TenderSrv", "Permission", "InsertReview",
              "Commit">>

\* The call after label l in the operation (l is never the last one, Commit).
After(op, l) ==
    LET f == Flow(op)
        i == CHOOSE k \in 1..Len(f) : f[k] = l
    IN  f[i + 1]

\* Every label but Summary (a local computation) is a call that uses the
\* transaction of the request's context.
StoreCalls ==
    {"Validate", "ValidateAuthorId", "ValidateAuthor", "Tender", "Bid", "TenderSrv",
     "Permission", "Authorize", "UserId", "OrgSize", "InsertTender", "UpdateTender",
     "TenderSetStatus", "SaveTender", "RecoverTender", "InsertBid", "UpdateBid",
     "BidSetStatus", "SaveBid", "RecoverBid", "InsertDecision", "Decisions",
     "InsertReview", "Reviews", "TenderBids", "Commit"}

NoTenderNew == [OrgId |-> "", Name |-> "", Desc |-> "", ServiceType |-> ""]
NoBidNew == [TenderId |-> 0, Name |-> "", Desc |-> "", AuthorType |-> "", AuthorId |-> ""]

NoLoc ==
    [op |-> "", username |-> "", id |-> 0, version |-> 0, status |-> "",
     patch |-> NoPatch, tenderNew |-> NoTenderNew, bidNew |-> NoBidNew,
     decision |-> "", author |-> "",
     tender |-> NoTender, newTender |-> NoTender, bid |-> NoBid, newBid |-> NoBid,
     userId |-> "", decisions |-> <<>>, orgSize |-> 0, summary |-> "",
     err |-> ErrNil, retTender |-> NoTender, retBid |-> NoBid, retStatus |-> "",
     retList |-> {}]

Init ==
    /\ tender = {} /\ rollback_tender = {} /\ bid = {} /\ rollback_bid = {}
    /\ decision = {} /\ review = {}
    /\ tx = [p \in Procs |-> NoTx]
    /\ pc = [p \in Procs |-> "idle"]
    /\ loc = [p \in Procs |-> NoLoc]
    /\ pre = [p \in Procs |-> NoPre]
    /\ tenderSrv \in {"Tender", "mock"}
    /\ workload \in Workloads
    /\ submitted = {}
    /\ workload # "decision" => tenderSrv = "Tender"

\* A request arrives: the service operation op is called with arguments args.
Call(p, op, args) ==
    /\ pc[p] = "idle"
    /\ pc' = [pc EXCEPT ![p] = "Begin"]
    /\ loc' = [loc EXCEPT ![p] = args @@ [op |-> op] @@ NoLoc]
    /\ pre' = [pre EXCEPT ![p] = Committed]
    /\ UNCHANGED <<tables, tx, env>>

\* What is left of a request once its operation has returned: the
\* arguments (its local variables are gone).
Arguments(l) ==
    [NoLoc EXCEPT !.op = l.op, !.username = l.username, !.id = l.id,
                  !.version = l.version, !.status = l.status, !.patch = l.patch,
                  !.tenderNew = l.tenderNew, !.bidNew = l.bidNew,
                  !.decision = l.decision, !.author = l.author]

\* The operation returns err (its results stay zero values); the deferred
\* Rollback is still to run.
Fail(p, err) ==
    /\ loc' = [loc EXCEPT ![p] = [Arguments(loc[p]) EXCEPT !.err = err]]
    /\ pc' = [pc EXCEPT ![p] = "defer"]

Goto(p, l) == pc' = [pc EXCEPT ![p] = After(loc[p].op, l)]

At(p, l) == pc[p] = l /\ TxOpen(p)

\* ------------------------------------------------------------ Storage: tx
\* pool.Begin.  The context of a request carries no transaction when its
\* operation starts.
Begin(p) ==
    /\ pc[p] = "Begin"
    /\ tx' = [tx EXCEPT ![p] = [NoTx EXCEPT !.state = "open"]]
    /\ pc' = [pc EXCEPT ![p] = After(loc[p].op, "Begin")]
    /\ UNCHANGED <<tables, loc, pre, env>>

\* pool.Begin fails: the operation returns before it defers Rollback.
BeginFail(p) ==
    /\ pc[p] = "Begin"
    /\ loc' = [loc EXCEPT ![p].err = ErrInternal]
    /\ pc' = [pc EXCEPT ![p] = "done"]
    /\ UNCHANGED <<tables, tx, pre, env>>

\* tx.Commit of an open transaction: its rows become the committed rows.
CommitTx(p) ==
    /\ tender' = ViewTender(p)
    /\ bid' = ViewBid(p)
    /\ decision' = ViewDecision(p)
    /\ rollback_tender' = ViewRollbackTender(p)
    /\ rollback_bid' = ViewRollbackBid(p)
    /\ review' = ViewReview(p)
    /\ tx' = [tx EXCEPT ![p] = [NoTx EXCEPT !.state = "committed"]]

\* What the operation returns once its Commit succeeded.
Returned(l) ==
    CASE l.op \in {"Tender.New", "Tender.Edit", "Tender.Rollback"} ->
            [Arguments(l) EXCEPT !.retTender = l.newTender]
      [] l.op = "Tender.SetStatus" -> [Arguments(l) EXCEPT !.retTender = l.tender]
      [] l.op = "Tender.Status" -> [Arguments(l) EXCEPT !.retStatus = l.tender.Status]
      [] l.op \in {"Bid.New", "Bid.Edit", "Bid.Rollback"} ->
            [Arguments(l) EXCEPT !.retBid = l.newBid]
      [] l.op \in {"Bid.SetStatus", "Bid.Feedback"} -> [Arguments(l) EXCEPT !.retBid = l.bid]
      [] l.op = "Bid.SubmitDecision" ->
            [Arguments(l) EXCEPT !.retBid = l.bid, !.summary = l.summary]
      [] l.op = "Bid.Status" -> [Arguments(l) EXCEPT !.retStatus = l.bid.Status]
      [] OTHER -> [Arguments(l) EXCEPT !.retList = l.retList]

\* An insertion that leaves the earlier decision of the user in place.
Appended(rows, d) == rows \cup {d}

\* INSERT ... or UPDATE decision SET decision=$3 WHERE user_id=$1 AND bid_id=$2
Upsert(rows, d) ==
    IF \E r \in rows : ByUserBid(r) = ByUserBid(d)
    THEN {IF ByUserBid(r) = ByUserBid(d) THEN [r EXCEPT !.Decision = d.Decision] ELSE r :
            r \in rows}
    ELSE rows \cup {d}

\* The history after the operation of l returned nil: a SubmitDecision adds
\* the requester's decision on the bid.
Submitted(l) ==
    IF l.op = "Bid.SubmitDecision"
    THEN Upsert(submitted, [UserId |-> l.userId, BidId |-> l.bid.Id, Decision |-> l.decision])
    ELSE submitted

Commit(p) ==
    /\ At(p, "Commit")
    /\ CommitTx(p)
    /\ loc' = [loc EXCEPT ![p] = Returned(loc[p])]
    /\ pc' = [pc EXCEPT ![p] = "defer"]
    /\ submitted' = Submitted(loc[p])
    /\ UNCHANGED <<pre, tenderSrv, workload>>

\* A deferred Rollback that commits what the transaction wrote.
RollbackCommitting(p) ==
    /\ pc[p] = "defer"
    /\ IF TxOpen(p) THEN CommitTx(p) ELSE UNCHANGED <<tables, tx>>
    /\ pc' = [pc EXCEPT ![p] = "done"]
    /\ UNCHANGED <<loc, pre, env>>

\* A deferred Rollback that returns the ErrTxClosed of a committed
\* transaction as the error of the operation.
RollbackOverriding(p) ==
    /\ pc[p] = "defer"
    /\ tx' = [tx EXCEPT ![p].state = IF TxOpen(p) THEN "rolledback" ELSE @]
    /\ loc' = [loc EXCEPT ![p].err = IF TxOpen(p) THEN @ ELSE ErrInternal]
    /\ pc' = [pc EXCEPT ![p] = "done"]
    /\ UNCHANGED <<tables, pre, env>>

\* The deferred Rollback: an open transaction is rolled back (the rows it
\* wrote are discarded: no transaction sees them again); after a Commit
\* tx.Rollback answers ErrTxClosed, which Rollback turns into nil.
Rollback(p) ==
    /\ pc[p] = "defer"
    /\ tx' = [tx EXCEPT ![p].state = IF TxOpen(p) THEN "rolledback" ELSE @]
    /\ pc' = [pc EXCEPT ![p] = "done"]
    /\ UNCHANGED <<tables, loc, pre, env>>

\* The deferred Rollback fails (the connection is lost): the operation logs
\* the error and returns what it was returning; the server aborts the
\* transaction.
RollbackFail(p) ==
    /\ pc[p] = "defer"
    /\ TxOpen(p)
    /\ tx' = [tx EXCEPT ![p].state = "aborted"]
    /\ pc' = [pc EXCEPT ![p] = "done"]
    /\ UNCHANGED <<tables, loc, pre, env>>

\* The result has been delivered; the worker takes the next request.
Return(p) ==
    /\ pc[p] = "done"
    /\ pc' = [pc EXCEPT ![p] = "idle"]
    /\ loc' = [loc EXCEPT ![p] = NoLoc]
    /\ tx' = [tx EXCEPT ![p] = NoTx]
    /\ pre' = [pre EXCEPT ![p] = NoPre]
    /\ UNCHANGED <<tables, env>>

\* A call on the storage fails (connection lost, deadline of the context
\* exceeded): the operation wraps the error and returns it.
StoreFail(p) ==
    /\ pc[p] \in StoreCalls
    /\ TxOpen(p)
    /\ Fail(p, ErrInternal)
    /\ UNCHANGED <<tables, tx, pre, env>>

\* A call on a transaction that is already committed or rolled back: pgx
\* answers ErrTxClosed, which the operation wraps and returns.
TxClosed(p) ==
    /\ pc[p] \in StoreCalls
    /\ ~TxOpen(p)
    /\ Fail(p, ErrInternal)
    /\ UNCHANGED <<tables, tx, pre, env>>

\* ----------------------------------------------------------- User service
\* A validation that lets every username pass.
ValidateLenient(p) ==
    /\ At(p, "Validate")
    /\ Goto(p, "Validate")
    /\ UNCHANGED <<tables, tx, loc, pre, env>>

\* User.Validate over Storage.VerifyUser.
Validate(p) ==
    /\ At(p, "Validate")
    /\ IF VerifyUser(loc[p].username)
       THEN Goto(p, "Validate") /\ UNCHANGED loc
       ELSE Fail(p, ErrUserNotFound)
    /\ UNCHANGED <<tables, tx, pre, env>>

\* A permission that every user is granted.
PermissionGranted(p) ==
    /\ At(p, "Permission")
    /\ Goto(p, "Permission")
    /\ UNCHANGED <<tables, tx, loc, pre, env>>

\* A permission that reports the user it refuses as unknown.
PermissionAsUnknown(p) ==
    /\ At(p, "Permission")
    /\ IF VerifyUserPermission(loc[p].username, loc[p].tender.OrgId)
       THEN Goto(p, "Permission") /\ UNCHANGED loc
       ELSE Fail(p, ErrUserNotFound)
    /\ UNCHANGED <<tables, tx, pre, env>>

\* User.Permission over Storage.VerifyUserPermission, asked about the
\* organization of the tender the operation fetched.
Permission(p) ==
    /\ At(p, "Permission")
    /\ IF VerifyUserPermission(loc[p].username, loc[p].tender.OrgId)
       THEN Goto(p, "Permission") /\ UNCHANGED loc
       ELSE Fail(p, ErrNotEnoughPrivileges)
    /\ UNCHANGED <<tables, tx, pre, env>>

\* --------------------------------------------------------- Storage: tender
\* INSERT INTO tender(...) RETURNING id, created_at: the row gets a new id
\* and the current time, whatever Id and CreatedAt the argument carries.
InsertedTender(t) == [t EXCEPT !.Id = FreshId(AllTenderRows), !.CreatedAt = Now]

\* A Rollback that inserts the recovered tender with the status it was saved with.
TenderToInsertAsSaved(l) ==
    IF l.op = "Tender.New"
    THEN ToTender(l.tenderNew)
    ELSE [l.newTender EXCEPT !.Version = l.tender.Version + 1]

\* The tender an operation inserts: Tender.New the converted request,
\* Tender.Rollback the recovered tender with version and status forced.
TenderToInsert(l) ==
    IF l.op = "Tender.New"
    THEN ToTender(l.tenderNew)
    ELSE [l.newTender EXCEPT !.Version = l.tender.Version + 1, !.Status = l.tender.Status]

InsertTender(p) ==
    /\ At(p, "InsertTender")
    /\ LET t == InsertedTender(TenderToInsert(loc[p]))
       IN  IF t.OrgId \in organization
           THEN /\ tx' = [tx EXCEPT ![p].tender = @ \cup {t}]
                /\ loc' = [loc EXCEPT ![p].newTender = t]
                /\ Goto(p, "InsertTender")
           ELSE Fail(p, ErrInternal) /\ UNCHANGED tx
    /\ UNCHANGED <<tables, pre, env>>

\* SELECT ... FROM tender WHERE id=$1
Tender(p) ==
    /\ At(p, "Tender")
    /\ LET found == {r \in ViewTender(p) : r.Id = loc[p].id}
       IN  IF found = {}
           THEN Fail(p, ErrTenderNotFound)
           ELSE /\ loc' = [loc EXCEPT ![p].tender = CHOOSE r \in found : TRUE]
                /\ Goto(p, "Tender")
    /\ UNCHANGED <<tables, tx, pre, env>>

\* An update that puts the tender back to its first status.
UpdatedTenderAsNew(row, t) ==
    [row EXCEPT !.OrgId = t.OrgId, !.Name = t.Name, !.Desc = t.Desc,
                !.ServiceType = t.ServiceType, !.Status = TenderCreated,
                !.Version = t.Version]

\* UPDATE tender SET organization_id, name, description, type, status,
\* version WHERE id=$1: every column but created_at; no row, no error.
UpdatedTender(row, t) ==
    [row EXCEPT !.OrgId = t.OrgId, !.Name = t.Name, !.Desc = t.Desc,
                !.ServiceType = t.ServiceType, !.Status = t.Status,
                !.Version = t.Version]

\* Tender.Edit: newTender := tender; newTender.Patch(patch); newTender.Version += 1
EditedTender(t, patch) == [TenderPatch(t, patch) EXCEPT !.Version = @ + 1]

UpdateTender(p) ==
    /\ At(p, "UpdateTender")
    /\ ~TenderLocked(p, loc[p].id)
    /\ LET newTender == EditedTender(loc[p].tender, loc[p].patch)
           rows == {UpdatedTender(r, newTender) : r \in {x \in ViewTender(p) : x.Id = newTender.Id}}
       IN  /\ tx' = [tx EXCEPT ![p].tender = {r \in @ : r.Id # newTender.Id} \cup rows]
           /\ loc' = [loc EXCEPT ![p].newTender = newTender]
    /\ Goto(p, "UpdateTender")
    /\ UNCHANGED <<tables, pre, env>>

\* An update of the status that counts as a new version.
TenderSetStatusBumping(p) ==
    /\ At(p, "TenderSetStatus")
    /\ ~TenderLocked(p, loc[p].id)
    /\ LET found == {r \in ViewTender(p) : r.Id = loc[p].id}
           rows == {[r EXCEPT !.Status = loc[p].status, !.Version = @ + 1] : r \in found}
       IN  IF found = {}
           THEN Fail(p, ErrTenderNotFound) /\ UNCHANGED tx
           ELSE /\ tx' = [tx EXCEPT ![p].tender = {r \in @ : r.Id # loc[p].id} \cup rows]
                /\ loc' = [loc EXCEPT ![p].tender = CHOOSE r \in rows : TRUE]
                /\ Goto(p, "TenderSetStatus")
    /\ UNCHANGED <<tables, pre, env>>

\* UPDATE tender SET status=$2 WHERE id=$1 RETURNING ...
TenderSetStatus(p) ==
    /\ At(p, "TenderSetStatus")
    /\ ~TenderLocked(p, loc[p].id)
    /\ LET found == {r \in ViewTender(p) : r.Id = loc[p].id}
           rows == {[r EXCEPT !.Status = loc[p].status] : r \in found}
       IN  IF found = {}
           THEN Fail(p, ErrTenderNotFound) /\ UNCHANGED tx
           ELSE /\ tx' = [tx EXCEPT ![p].tender = {r \in @ : r.Id # loc[p].id} \cup rows]
                /\ loc' = [loc EXCEPT ![p].tender = CHOOSE r \in rows : TRUE]
                /\ Goto(p, "TenderSetStatus")
    /\ UNCHANGED <<tables, pre, env>>

\* ------------------------------------------------------ Storage: rollback
\* INSERT INTO rollback_tender(...): PRIMARY KEY(id, version) refuses a
\* second snapshot of the same version.
\* An Edit that archives the tender it has just written.
TenderToSaveEdited(l) == l.newTender

\* The tender Edit and Rollback archive: the one they fetched.
TenderToSave(l) == l.tender

\* A history without its primary key: every snapshot is accepted.
SaveTenderUnkeyed(p) ==
    /\ At(p, "SaveTender")
    /\ tx' = [tx EXCEPT ![p].rollback_tender = @ \cup {TenderToSave(loc[p])}]
    /\ Goto(p, "SaveTender")
    /\ UNCHANGED <<tables, loc, pre, env>>

SaveTender(p) ==
    /\ At(p, "SaveTender")
    /\ ~TenderSnapshotPending(p, TenderToSave(loc[p]))
    /\ LET t == TenderToSave(loc[p])
       IN  IF \E r \in ViewRollbackTender(p) : r.Id = t.Id /\ r.Version = t.Version
           THEN Fail(p, ErrInternal) /\ UNCHANGED tx
           ELSE /\ tx' = [tx EXCEPT ![p].rollback_tender = @ \cup {t}]
                /\ Goto(p, "SaveTender")
                /\ UNCHANGED loc
    /\ UNCHANGED <<tables, pre, env>>

\* A recovery that hands the snapshot out as the next version of the tender.
RecoverTenderForced(p) ==
    /\ At(p, "RecoverTender")
    /\ LET found == {r \in ViewRollbackTender(p) :
                        r.Id = loc[p].id /\ r.Version = loc[p].version}
       IN  IF found = {}
           THEN Fail(p, ErrVersionNotFound)
           ELSE /\ loc' = [loc EXCEPT ![p].newTender =
                             [CHOOSE r \in found : TRUE EXCEPT
                                 !.Version = loc[p].tender.Version + 1]]
                /\ Goto(p, "RecoverTender")
    /\ UNCHANGED <<tables, tx, pre, env>>

\* SELECT ... FROM rollback_tender WHERE id=$1 AND version=$2
RecoverTender(p) ==
    /\ At(p, "RecoverTender")
    /\ LET found == {r \in ViewRollbackTender(p) :
                        r.Id = loc[p].id /\ r.Version = loc[p].version}
       IN  IF found = {}
           THEN Fail(p, ErrVersionNotFound)
           ELSE /\ loc' = [loc EXCEPT ![p].newTender = CHOOSE r \in found : TRUE]
                /\ Goto(p, "RecoverTender")
    /\ UNCHANGED <<tables, tx, pre, env>>

\* ------------------------------------------------- User service, for bids
\* Bid.New: switch bidNew.AuthorType over ValidateUserId / ValidateOrgId.
ValidateAuthorId(p) ==
    /\ At(p, "ValidateAuthorId")
    /\ LET n == loc[p].bidNew
       IN  CASE n.AuthorType = User /\ ~VerifyUserId(n.AuthorId) -> Fail(p, ErrUserNotFound)
             [] n.AuthorType = Organization /\ ~VerifyOrgId(n.AuthorId) ->
                    Fail(p, ErrOrganizationNotFound)
             [] OTHER -> Goto(p, "ValidateAuthorId") /\ UNCHANGED loc
    /\ UNCHANGED <<tables, tx, pre, env>>

\* A validation of the author that reports it as the requester's.
ValidateAuthorAsUser(p) ==
    /\ At(p, "ValidateAuthor")
    /\ IF VerifyUser(loc[p].author)
       THEN Goto(p, "ValidateAuthor") /\ UNCHANGED loc
       ELSE Fail(p, ErrUserNotFound)
    /\ UNCHANGED <<tables, tx, pre, env>>

\* Bid.Reviews: Validate of the author of the reviews.
ValidateAuthor(p) ==
    /\ At(p, "ValidateAuthor")
    /\ IF VerifyUser(loc[p].author)
       THEN Goto(p, "ValidateAuthor") /\ UNCHANGED loc
       ELSE Fail(p, ErrAuthorNotFound)
    /\ UNCHANGED <<tables, tx, pre, env>>

\* A check that lets every requester pass.
AuthorizedAlways(username, b) == TRUE

\* The check of Bid.Status, SetStatus, Edit and Rollback: switch
\* bid.AuthorType over UserId(username) = bid.AuthorId / Permission.
Authorized(username, b) ==
    CASE b.AuthorType = User -> EmployeeId(username) = b.AuthorId
      [] b.AuthorType = Organization -> VerifyUserPermission(username, b.AuthorId)
      [] OTHER -> TRUE

Authorize(p) ==
    /\ At(p, "Authorize")
    /\ CASE loc[p].bid.AuthorType = User /\ ~HasUserId(loc[p].username) -> Fail(p, ErrInternal)
         [] ~Authorized(loc[p].username, loc[p].bid) -> Fail(p, ErrNotEnoughPrivileges)
         [] OTHER -> Goto(p, "Authorize") /\ UNCHANGED loc
    /\ UNCHANGED <<tables, tx, pre, env>>

\* User.UserId over Storage.UserId: no row is an error that is not UserNotFound.
UserId(p) ==
    /\ At(p, "UserId")
    /\ IF HasUserId(loc[p].username)
       THEN loc' = [loc EXCEPT ![p].userId = EmployeeId(loc[p].username)] /\ Goto(p, "UserId")
       ELSE Fail(p, ErrInternal)
    /\ UNCHANGED <<tables, tx, pre, env>>

\* User.OrgSize over Storage.OrgSize (a COUNT: it always has a row).
OrgSize(p) ==
    /\ At(p, "OrgSize")
    /\ loc' = [loc EXCEPT ![p].orgSize = CountResponsible(loc[p].tender.OrgId)]
    /\ Goto(p, "OrgSize")
    /\ UNCHANGED <<tables, tx, pre, env>>

\* ------------------------------------------------------------ Storage: bid
InsertedBid(b) == [b EXCEPT !.Id = FreshId(AllBidRows), !.CreatedAt = Now]

\* The bid an operation inserts: Bid.New the converted request, Bid.Rollback
\* the recovered bid with version and status forced.
BidToInsert(l) ==
    IF l.op = "Bid.New"
    THEN ToBid(l.bidNew)
    ELSE [l.newBid EXCEPT !.Version = l.bid.Version + 1, !.Status = l.bid.Status]

\* INSERT INTO bid(...) RETURNING id, created_at; tender_id REFERENCES tender(id).
InsertBid(p) ==
    /\ At(p, "InsertBid")
    /\ LET b == InsertedBid(BidToInsert(loc[p]))
       IN  IF \E t \in ViewTender(p) : t.Id = b.TenderId
           THEN /\ tx' = [tx EXCEPT ![p].bid = @ \cup {b}]
                /\ loc' = [loc EXCEPT ![p].newBid = b]
                /\ Goto(p, "InsertBid")
           ELSE Fail(p, ErrInternal) /\ UNCHANGED tx
    /\ UNCHANGED <<tables, pre, env>>

\* SELECT ... FROM bid WHERE id=$1
Bid(p) ==
    /\ At(p, "Bid")
    /\ LET found == {r \in ViewBid(p) : r.Id = loc[p].id}
       IN  IF found = {}
           THEN Fail(p, ErrBidNotFound)
           ELSE /\ loc' = [loc EXCEPT ![p].bid = CHOOSE r \in found : TRUE]
                /\ Goto(p, "Bid")
    /\ UNCHANGED <<tables, tx, pre, env>>

\* UPDATE bid SET name, description, status, author_type, author_id, version
\* WHERE id=$1: not tender_id, not created_at; no row, no error.
UpdatedBid(row, b) ==
    [row EXCEPT !.Name = b.Name, !.Desc = b.Desc, !.Status = b.Status,
                !.AuthorType = b.AuthorType, !.AuthorId = b.AuthorId,
                !.Version = b.Version]

\* Bid.Edit: newBid := bid; newBid.Patch(patch); newBid.Version += 1
EditedBid(b, patch) == [BidPatch(b, patch) EXCEPT !.Version = @ + 1]

\* A cancellation that counts as a new version.
CanceledBidBumped(b) == [b EXCEPT !.Status = BidCanceled, !.Version = @ + 1]

\* Bid.SubmitDecision with a conclusive summary: bid.Status = BidCanceled
CanceledBid(b) == [b EXCEPT !.Status = BidCanceled]

UpdateBid(p) ==
    /\ At(p, "UpdateBid")
    /\ ~BidLocked(p, loc[p].id)
    /\ LET edit == loc[p].op = "Bid.Edit"
           b == IF edit THEN EditedBid(loc[p].bid, loc[p].patch) ELSE CanceledBid(loc[p].bid)
           rows == {UpdatedBid(r, b) : r \in {x \in ViewBid(p) : x.Id = b.Id}}
       IN  /\ tx' = [tx EXCEPT ![p].bid = {r \in @ : r.Id # b.Id} \cup rows]
           /\ loc' = IF edit THEN [loc EXCEPT ![p].newBid = b] ELSE [loc EXCEPT ![p].bid = b]
    /\ Goto(p, "UpdateBid")
    /\ UNCHANGED <<tables, pre, env>>

\* UPDATE bid SET status=$2 WHERE id=$1 RETURNING ...
BidSetStatus(p) ==
    /\ At(p, "BidSetStatus")
    /\ ~BidLocked(p, loc[p].id)
    /\ LET found == {r \in ViewBid(p) : r.Id = loc[p].id}
           rows == {[r EXCEPT !.Status = loc[p].status] : r \in found}
       IN  IF found = {}
           THEN Fail(p, ErrInternal) /\ UNCHANGED tx
           ELSE /\ tx' = [tx EXCEPT ![p].bid = {r \in @ : r.Id # loc[p].id} \cup rows]
                /\ loc' = [loc EXCEPT ![p].bid = CHOOSE r \in rows : TRUE]
                /\ Goto(p, "BidSetStatus")
    /\ UNCHANGED <<tables, pre, env>>

\* INSERT INTO rollback_bid(...): PRIMARY KEY(id, version).
\* The bid Edit and Rollback archive: the one they fetched.
BidToSave(l) == l.bid

SaveBid(p) ==
    /\ At(p, "SaveBid")
    /\ ~BidSnapshotPending(p, BidToSave(loc[p]))
    /\ LET b == BidToSave(loc[p])
       IN  IF \E r \in ViewRollbackBid(p) : r.Id = b.Id /\ r.Version = b.Version
           THEN Fail(p, ErrInternal) /\ UNCHANGED tx
           ELSE /\ tx' = [tx EXCEPT ![p].rollback_bid = @ \cup {b}]
                /\ Goto(p, "SaveBid")
                /\ UNCHANGED loc
    /\ UNCHANGED <<tables, pre, env>>

\* SELECT ... FROM rollback_bid WHERE id=$1 AND version=$2
RecoverBid(p) ==
    /\ At(p, "RecoverBid")
    /\ LET found == {r \in ViewRollbackBid(p) :
                        r.Id = loc[p].id /\ r.Version = loc[p].version}
       IN  IF found = {}
           THEN Fail(p, ErrVersionNotFound)
           ELSE /\ loc' = [loc EXCEPT ![p].newBid = CHOOSE r \in found : TRUE]
                /\ Goto(p, "RecoverBid")
    /\ UNCHANGED <<tables, tx, pre, env>>

\* SELECT ... FROM bid WHERE tender_id=$1 AND status='Published'
TenderBids(p) ==
    /\ At(p, "TenderBids")
    /\ loc' = [loc EXCEPT ![p].retList =
                  {r \in ViewBid(p) : r.TenderId = loc[p].id /\ r.Status = BidPublished}]
    /\ Goto(p, "TenderBids")
    /\ UNCHANGED <<tables, tx, pre, env>>

\* ------------------------------------------- Bid service: the tender lookup
\* b.tenderSrv.Tender(ctx, tenderId) with the context of the operation.  The
\* Tender service's Tender finds the transaction of the operation in the
\* context (Begin returns the context as it is), reads the tender and commits
\* that transaction; if the tender is missing its deferred Rollback rolls the
\* transaction back.  The mock of the TenderService interface only answers.
LookedUp(l) == IF l.op \in {"Bid.List", "Bid.Reviews"} THEN l.id ELSE l.bid.TenderId

TenderSrv(p) ==
    /\ At(p, "TenderSrv")
    /\ LET found == {r \in ViewTender(p) : r.Id = LookedUp(loc[p])}
       IN  IF found = {}
           THEN /\ Fail(p, ErrTenderNotFound)
                /\ tx' = [tx EXCEPT ![p].state = IF tenderSrv = "Tender"
                                                 THEN "rolledback" ELSE @]
                /\ UNCHANGED tables
           ELSE /\ loc' = [loc EXCEPT ![p].tender = CHOOSE r \in found : TRUE]
                /\ Goto(p, "TenderSrv")
                /\ IF tenderSrv = "Tender" THEN CommitTx(p) ELSE UNCHANGED <<tables, tx>>
    /\ UNCHANGED <<pre, env>>

\* ------------------------------------------------------- Storage: decision
InsertDecision(p) ==
    /\ At(p, "InsertDecision")
    /\ LET d == [UserId |-> loc[p].userId, BidId |-> loc[p].bid.Id,
                 Decision |-> loc[p].decision]
           rows == {r \in Upsert(ViewDecision(p), d) : ByUserBid(r) = ByUserBid(d)}
       IN  tx' = [tx EXCEPT ![p].decision = {r \in @ : ByUserBid(r) # ByUserBid(d)} \cup rows]
    /\ Goto(p, "InsertDecision")
    /\ UNCHANGED <<tables, loc, pre, env>>

\* The orders a SELECT without ORDER BY may return the rows in.
Orders(rows) ==
    {s \in [1..Cardinality(rows) -> rows] : \A r \in rows : \E i \in DOMAIN s : s[i] = r}

\* SELECT user_id, decision FROM decision WHERE bid_id=$1
Decisions(p) ==
    /\ At(p, "Decisions")
    /\ \E s \in Orders({r \in ViewDecision(p) : r.BidId = loc[p].id}) :
           loc' = [loc EXCEPT ![p].decisions = s]
    /\ Goto(p, "Decisions")
    /\ UNCHANGED <<tables, tx, pre, env>>

\* --------------------------------------------------- Bid service: the quorum
Min(a, b) == IF a < b THEN a ELSE b

\* The loop over the decisions from the i-th on: an Approved counts, a
\* Rejected sets the summary and leaves the loop.
RECURSIVE Tally(_, _, _)
Tally(decisions, i, approve_counter) ==
    IF i > Len(decisions)
    THEN [summary |-> "null", approve_counter |-> approve_counter]
    ELSE CASE decisions[i].Decision = Approved -> Tally(decisions, i + 1, approve_counter + 1)
           [] decisions[i].Decision = Rejected ->
                  [summary |-> Rejected, approve_counter |-> approve_counter]
           [] OTHER -> Tally(decisions, i + 1, approve_counter)

\* A threshold that grows with the organization.
RequiredApprovesOfAll(orgSize) == orgSize

RequiredApproves(orgSize) == Min(orgSize, QUORUM_SIZE)

\* A summary that stops at the quorum: the approvals ahead of the first
\* Rejected decide if they are enough.
SummarizeInOrder(decisions, orgSize) ==
    CASE \E k \in 0..Len(decisions) :
            /\ k >= Min(orgSize, QUORUM_SIZE)
            /\ \A i \in 1..k : decisions[i].Decision = Approved -> Approved
      [] \E i \in 1..Len(decisions) : decisions[i].Decision = Rejected -> Rejected
      [] OTHER -> "null"

Summarize(decisions, orgSize) ==
    LET t == Tally(decisions, 1, 0)
    IN  IF t.summary # Rejected /\ t.approve_counter >= RequiredApproves(orgSize)
        THEN Approved
        ELSE t.summary

\* The summary of SubmitDecision.  An inconclusive one ("null") returns the
\* bid and nil at once: no Commit, the deferred Rollback is still to run.
Summary(p) ==
    /\ pc[p] = "Summary"
    /\ LET sum == Summarize(loc[p].decisions, loc[p].orgSize)
       IN  IF sum = "null"
           THEN /\ loc' = [loc EXCEPT ![p] = [Arguments(loc[p]) EXCEPT
                                                 !.retBid = loc[p].bid, !.summary = sum]]
                /\ pc' = [pc EXCEPT ![p] = "defer"]
                /\ submitted' = Submitted(loc[p])
           ELSE /\ loc' = [loc EXCEPT ![p].summary = sum]
                /\ Goto(p, "Summary")
                /\ UNCHANGED submitted
    /\ UNCHANGED <<tables, tx, pre, tenderSrv, workload>>

\* --------------------------------------------------------- Storage: review
\* INSERT INTO review(bid_id, description, author) VALUES(...) RETURNING id
InsertReview(p) ==
    /\ At(p, "InsertReview")
    /\ tx' = [tx EXCEPT ![p].review = @ \cup
                 {[Id |-> FreshId(AllReviewRows), BidId |-> loc[p].bid.Id,
                   Desc |-> loc[p].status, AuthorName |-> loc[p].username,
                   CreatedAt |-> Now]}]
    /\ Goto(p, "InsertReview")
    /\ UNCHANGED <<tables, loc, pre, env>>

\* SELECT ... FROM review WHERE bid_id IN (SELECT id FROM bid WHERE
\* tender_id=$1) AND author=$2
Reviews(p) ==
    /\ At(p, "Reviews")
    /\ loc' = [loc EXCEPT ![p].retList =
                  {r \in ViewReview(p) :
                      /\ r.AuthorName = loc[p].author
                      /\ \E b \in ViewBid(p) : b.Id = r.BidId /\ b.TenderId = loc[p].id}]
    /\ Goto(p, "Reviews")
    /\ UNCHANGED <<tables, tx, pre, env>>

\* --------------------------------------------------- Tender service calls
\* u1 is responsible for o1, u4 is not, "ghost" is no employee.
TenderRequesters == {"u1", "u4", "ghost"}
TenderNews ==
    [OrgId : organization, Name : {"n1"}, Desc : {"d1"}, ServiceType : {"Construction"}]
TenderPatches == {NoPatch, [Name |-> "n2", Desc |-> Null, ServiceType |-> "Delivery"]}

\* The bounds of the model: Tender.New is called while fewer than maxNew
\* tenders exist, Rollback while the table has fewer than maxRows rows, Edit
\* and Rollback while the tender's version is below maxVersion.
TenderVersionRoom(id, maxVersion) == \A r \in tender : r.Id = id => r.Version < maxVersion

CallTenderNew(p, maxNew) ==
    \E u \in TenderRequesters, n \in TenderNews :
        /\ Cardinality(tender) < maxNew
        /\ workload # "decision" => n.OrgId = "o1"
        /\ Call(p, "Tender.New", [username |-> u, tenderNew |-> n])

CallTenderStatus(p, maxRows) ==
    \E u \in TenderRequesters, id \in 1..maxRows :
        workload = "tender" /\ Call(p, "Tender.Status", [username |-> u, id |-> id])

CallTenderSetStatus(p, maxRows) ==
    \E u \in TenderRequesters, id \in 1..maxRows, st \in TenderStatuses :
        workload = "tender" /\ Call(p, "Tender.SetStatus", [username |-> u, id |-> id, status |-> st])

CallTenderEdit(p, maxRows, maxVersion) ==
    \E u \in TenderRequesters, id \in 1..maxRows, patch \in TenderPatches :
        /\ TenderVersionRoom(id, maxVersion)
        /\ workload = "tender" /\ Call(p, "Tender.Edit", [username |-> u, id |-> id, patch |-> patch])

CallTenderRollback(p, maxRows, maxVersion) ==
    \E u \in TenderRequesters, id \in 1..maxRows, v \in 1..(maxVersion - 1) :
        /\ Cardinality(tender) < maxRows
        /\ TenderVersionRoom(id, maxVersion)
        /\ workload = "tender" /\ Call(p, "Tender.Rollback", [username |-> u, id |-> id, version |-> v])

\* ------------------------------------------------------ Bid service calls
\* u1 is the employee e1 and responsible for o1, u4 is neither.
BidRequesters == {"u1", "u4", "ghost"}
BidAuthors ==
    { [AuthorType |-> User, AuthorId |-> "e1"], [AuthorType |-> User, AuthorId |-> "e9"],
      [AuthorType |-> Organization, AuthorId |-> "o1"],
      [AuthorType |-> Organization, AuthorId |-> "o9"] }
BidNews ==
    { [TenderId |-> t, Name |-> "n1", Desc |-> "d1", AuthorType |-> a.AuthorType,
       AuthorId |-> a.AuthorId] : t \in 1..2, a \in BidAuthors }
BidPatches == {NoPatch, [Name |-> Null, Desc |-> "d2", ServiceType |-> Null]}

BidVersionRoom(id, maxVersion) == \A r \in bid : r.Id = id => r.Version < maxVersion

CallBidNew(p, maxNew) ==
    \E n \in BidNews :
        /\ Cardinality(bid) < maxNew
        /\ \/ workload = "bid"
           \/ workload = "decision" /\ n.AuthorId = "e1"
        /\ Call(p, "Bid.New", [bidNew |-> n])

CallBidStatus(p, maxRows) ==
    \E u \in BidRequesters, id \in 1..maxRows :
        workload = "bid" /\ Call(p, "Bid.Status", [username |-> u, id |-> id])

CallBidSetStatus(p, maxRows) ==
    \E u \in BidRequesters, id \in 1..maxRows, st \in BidStatuses :
        workload = "bid" /\ Call(p, "Bid.SetStatus", [username |-> u, id |-> id, status |-> st])

CallBidEdit(p, maxRows, maxVersion) ==
    \E u \in BidRequesters, id \in 1..maxRows, patch \in BidPatches :
        /\ BidVersionRoom(id, maxVersion)
        /\ workload \in {"bid", "race"}
        /\ Call(p, "Bid.Edit", [username |-> u, id |-> id, patch |-> patch])

CallBidRollback(p, maxRows, maxVersion) ==
    \E u \in BidRequesters, id \in 1..maxRows, v \in 1..(maxVersion - 1) :
        /\ Cardinality(bid) < maxRows
        /\ BidVersionRoom(id, maxVersion)
        /\ workload = "bid"
        /\ Call(p, "Bid.Rollback", [username |-> u, id |-> id, version |-> v])

\* u1, u2 and u3 are responsible for o1, u4 for o2.
DecisionRequesters == {"u1", "u2", "u3", "u4", "ghost"}
ReviewRequesters == {"u1", "ghost"}

CallSubmitDecision(p, maxRows) ==
    \E u \in DecisionRequesters, id \in 1..maxRows, d \in DecisionTypes :
        /\ workload \in {"decision", "race"}
        /\ Call(p, "Bid.SubmitDecision", [username |-> u, id |-> id, decision |-> d])

CallList(p, maxRows) ==
    \E u \in ReviewRequesters, id \in 1..maxRows :
        workload = "decision" /\ Call(p, "Bid.List", [username |-> u, id |-> id])

CallReviews(p, maxRows) ==
    \E u \in ReviewRequesters, a \in ReviewRequesters, id \in 1..maxRows :
        /\ workload = "decision"
        /\ Call(p, "Bid.Reviews", [username |-> u, author |-> a, id |-> id])

\* loc[p].status carries the text of the feedback.
CallFeedback(p, maxRows, maxReviews) ==
    \E u \in ReviewRequesters, id \in 1..maxRows :
        /\ workload = "decision"
        /\ Cardinality(review) < maxReviews
        /\ Call(p, "Bid.Feedback", [username |-> u, id |-> id, status |-> "f1"])

TenderService(p) ==
    \/ CallTenderNew(p, MaxNew) \/ CallTenderStatus(p, MaxRows)
    \/ CallTenderSetStatus(p, MaxRows) \/ CallTenderEdit(p, MaxRows, MaxVersion)
    \/ CallTenderRollback(p, MaxRows, MaxVersion)

BidService(p) ==
    \/ CallBidNew(p, MaxNew) \/ CallBidStatus(p, MaxRows) \/ CallBidSetStatus(p, MaxRows)
    \/ CallBidEdit(p, MaxRows, MaxVersion) \/ CallBidRollback(p, MaxRows, MaxVersion)
    \/ CallSubmitDecision(p, MaxRows) \/ CallList(p, MaxRows) \/ CallReviews(p, MaxRows)
    \/ CallFeedback(p, MaxRows, MaxReviews)
    \/ TenderSrv(p) \/ Summary(p)

UserService(p) ==
    \/ Validate(p) \/ Permission(p) \/ ValidateAuthorId(p) \/ ValidateAuthor(p)
    \/ Authorize(p) \/ UserId(p) \/ OrgSize(p)

Storage(p) ==
    \/ InsertTender(p) \/ Tender(p) \/ UpdateTender(p) \/ TenderSetStatus(p)
    \/ SaveTender(p) \/ RecoverTender(p)
    \/ InsertBid(p) \/ Bid(p) \/ UpdateBid(p) \/ BidSetStatus(p) \/ SaveBid(p)
    \/ RecoverBid(p) \/ TenderBids(p)
    \/ InsertDecision(p) \/ Decisions(p) \/ InsertReview(p) \/ Reviews(p)

Transaction(p) ==
    \/ Begin(p) \/ BeginFail(p) \/ Commit(p) \/ Rollback(p) \/ RollbackFail(p) \/ Return(p)
    \/ StoreFail(p) \/ TxClosed(p)

\* Requests are served one at a time.
Next == \E p \in SerialProcs :
    TenderService(p) \/ BidService(p) \/ UserService(p) \/ Storage(p) \/ Transaction(p)
Spec == Init /\ [][Next]_vars

\* ------------------------------------------------- the quorum, on its own
\* SubmitDecision about to compute the summary, for every list of decisions
\* of distinct users and every size of the organization.
Voters == <<"e1", "e2", "e3", "e4">>
DecisionLists ==
    UNION {[1..n -> DecisionTypes] : n \in 0..MaxDecisions}
InitQuorum ==
    /\ tender = {} /\ rollback_tender = {} /\ bid = {} /\ rollback_bid = {}
    /\ decision = {} /\ review = {}
    /\ tenderSrv = "mock" /\ workload = "decision" /\ submitted = {}
    /\ pre = [p \in Procs |-> NoPre]
    /\ \E ds \in DecisionLists, n \in 0..MaxOrgSize :
          /\ pc = [p \in Procs |-> IF p \in SerialProcs THEN "Summary" ELSE "idle"]
          /\ tx = [p \in Procs |->
                      IF p \in SerialProcs THEN [NoTx EXCEPT !.state = "open"] ELSE NoTx]
          /\ loc = [p \in Procs |->
                      IF p \in SerialProcs
                      THEN [NoLoc EXCEPT
                              !.op = "Bid.SubmitDecision", !.username = "u1", !.id = 1,
                              !.decision = Approved, !.userId = "e1", !.orgSize = n,
                              !.bid = [ToBid(NoBidNew) EXCEPT !.Id = 1],
                              !.decisions =
                                  [i \in 1..Len(ds) |->
                                      [UserId |-> Voters[i], BidId |-> 1, Decision |-> ds[i]]]]
                      ELSE NoLoc]
NextQuorum == \E p \in SerialProcs : Summary(p)
SpecQuorum == InitQuorum /\ [][NextQuorum]_vars

\* -------------------------------------- the size of the organization, alone
\* SubmitDecision about to ask for the size of the organization of the
\* tender, for every organization (o9 is the id of none) and every list of
\* decisions.
OrgIds == organization \cup {"o9"}
InitOrgSize ==
    /\ tender = {} /\ rollback_tender = {} /\ bid = {} /\ rollback_bid = {}
    /\ decision = {} /\ review = {}
    /\ tenderSrv = "mock" /\ workload = "decision" /\ submitted = {}
    /\ pre = [p \in Procs |-> NoPre]
    /\ \E ds \in DecisionLists, o \in OrgIds :
          /\ pc = [p \in Procs |-> IF p \in SerialProcs THEN "OrgSize" ELSE "idle"]
          /\ tx = [p \in Procs |->
                      IF p \in SerialProcs THEN [NoTx EXCEPT !.state = "open"] ELSE NoTx]
          /\ loc = [p \in Procs |->
                      IF p \in SerialProcs
                      THEN [NoLoc EXCEPT
                              !.op = "Bid.SubmitDecision", !.username = "u1", !.id = 1,
                              !.decision = Approved, !.userId = "e1",
                              !.bid = [ToBid(NoBidNew) EXCEPT !.Id = 1],
                              !.tender = [NoTender EXCEPT !.Id = 1, !.OrgId = o],
                              !.decisions =
                                  [i \in 1..Len(ds) |->
                                      [UserId |-> Voters[i], BidId |-> 1, Decision |-> ds[i]]]]
                      ELSE NoLoc]
NextOrgSize == \E p \in SerialProcs : OrgSize(p) \/ Summary(p)
SpecOrgSize == InitOrgSize /\ [][NextOrgSize]_vars

\* ------------------------------------------------- edits, in concurrency
\* Workers serve Edit requests on one stored tender, or on one stored bid,
\* at the same time; the store answers every call.
EditTenders == {[ToTender(n) EXCEPT !.Id = 1, !.CreatedAt = 1] : n \in {x \in TenderNews : x.OrgId = "o1"}}
EditBids ==
    {[ToBid(n) EXCEPT !.Id = 1, !.CreatedAt = 2] :
        n \in {x \in BidNews : x.TenderId = 1 /\ x.AuthorType = User /\ x.AuthorId = "e1"}}
InitEdit ==
    /\ workload \in {"tender", "bid"}
    /\ tender \in {{t} : t \in EditTenders}
    /\ bid \in {IF workload = "bid" THEN {b} ELSE {} : b \in EditBids}
    /\ rollback_tender = {} /\ rollback_bid = {} /\ decision = {} /\ review = {}
    /\ tx = [p \in Procs |-> NoTx]
    /\ pc = [p \in Procs |-> "idle"]
    /\ loc = [p \in Procs |-> NoLoc]
    /\ pre = [p \in Procs |-> NoPre]
    /\ tenderSrv = "Tender" /\ submitted = {}
NextEdit == \E p \in Pair :
    \/ CallTenderEdit(p, MaxNew, MaxVersion) \/ CallBidEdit(p, MaxNew, MaxVersion)
    \/ Begin(p) \/ Validate(p) \/ Tender(p) \/ Permission(p) \/ Bid(p) \/ Authorize(p)
    \/ UpdateTender(p) \/ SaveTender(p) \/ UpdateBid(p) \/ SaveBid(p)
    \/ Commit(p) \/ Rollback(p) \/ Return(p)
SpecEdit == InitEdit /\ [][NextEdit]_vars

\* ------------------------------------- edits, status changes and decisions
\* Two workers serve requests on one stored tender, or on one stored bid, at
\* the same time: Edit and SetStatus of the tender, Edit and SetStatus of the
\* bid, or ("race") Edit of the bid and decisions on it: one request each.
\* The store answers every call.
InitRace ==
    /\ workload \in {"tender", "bid", "race"}
    /\ tender \in {{t} : t \in EditTenders}
    /\ bid \in {IF workload = "tender" THEN {} ELSE {b} : b \in EditBids}
    /\ rollback_tender = {} /\ rollback_bid = {} /\ decision = {} /\ review = {}
    /\ tx = [p \in Procs |-> NoTx]
    /\ pc = [p \in Procs |-> "idle"]
    /\ loc = [p \in Procs |-> NoLoc]
    /\ pre = [p \in Procs |-> NoPre]
    /\ tenderSrv \in {"Tender", "mock"}
    /\ workload # "race" => tenderSrv = "Tender"
    /\ submitted = {}
NextRace == \E p \in Pair :
    \/ CallTenderEdit(p, MaxNew, MaxVersion) \/ CallTenderSetStatus(p, MaxNew)
    \/ CallBidEdit(p, MaxNew, MaxVersion) \/ CallBidSetStatus(p, MaxNew)
    \/ CallSubmitDecision(p, MaxNew)
    \/ Begin(p) \/ Validate(p) \/ Tender(p) \/ Permission(p) \/ Bid(p) \/ Authorize(p)
    \/ UpdateTender(p) \/ SaveTender(p) \/ TenderSetStatus(p)
    \/ UpdateBid(p) \/ SaveBid(p) \/ BidSetStatus(p)
    \/ TenderSrv(p) \/ UserId(p) \/ InsertDecision(p) \/ Decisions(p) \/ OrgSize(p)
    \/ Summary(p)
    \/ Commit(p) \/ Rollback(p) \/ TxClosed(p)
SpecRace == InitRace /\ [][NextRace]_vars

\* ------------------------------------------------- votes, in concurrency
\* The three representatives of o1 submit decisions on one stored bid of a
\* tender of o1 at the same time: one request each, of distinct users.  The
\* store answers every call.
Quorate == ("p1" :> "u1") @@ ("p2" :> "u2") @@ ("p3" :> "u3")
CallVote(p) ==
    \E d \in DecisionTypes :
        Call(p, "Bid.SubmitDecision", [username |-> Quorate[p], id |-> 1, decision |-> d])
InitVotes ==
    /\ workload = "decision"
    /\ tender \in {{t} : t \in EditTenders}
    /\ bid \in {{b} : b \in EditBids}
    /\ rollback_tender = {} /\ rollback_bid = {} /\ decision = {} /\ review = {}
    /\ tx = [p \in Procs |-> NoTx]
    /\ pc = [p \in Procs |-> "idle"]
    /\ loc = [p \in Procs |-> NoLoc]
    /\ pre = [p \in Procs |-> NoPre]
    /\ tenderSrv \in {"Tender", "mock"}
    /\ submitted = {}
NextVotes == \E p \in Procs :
    \/ CallVote(p)
    \/ Begin(p) \/ Validate(p) \/ Bid(p) \/ TenderSrv(p) \/ Permission(p) \/ UserId(p)
    \/ InsertDecision(p) \/ Decisions(p) \/ OrgSize(p) \/ Summary(p)
    \/ UpdateBid(p) \/ Commit(p) \/ Rollback(p) \/ TxClosed(p)
SpecVotes == InitVotes /\ [][NextVotes]_vars

\* ------------------------------------------------ bids of every author type
\* Bid.New takes the BidNew the request was decoded to: AuthorType is User
\* or Organization when the body names it (AuthorType.UnmarshalJSON), and the
\* zero value "" when the body has no authorType (validate looks at name
\* and description only).  Requests on the bids of one stored tender are
\* served one at a time; a call on the store may fail.
AnyBidNews ==
    {n \in BidNews : n.TenderId = 1} \cup
    {[TenderId |-> 1, Name |-> "n1", Desc |-> "d1", AuthorType |-> "", AuthorId |-> "e9"]}
CallBidNewAny(p, maxNew) ==
    \E n \in AnyBidNews :
        /\ Cardinality(bid) < maxNew
        /\ Call(p, "Bid.New", [bidNew |-> n])
InitAuthor ==
    /\ workload = "bid"
    /\ tender \in {{t} : t \in EditTenders}
    /\ bid = {} /\ rollback_tender = {} /\ rollback_bid = {} /\ decision = {}
    /\ review = {}
    /\ tx = [p \in Procs |-> NoTx]
    /\ pc = [p \in Procs |-> "idle"]
    /\ loc = [p \in Procs |-> NoLoc]
    /\ pre = [p \in Procs |-> NoPre]
    /\ tenderSrv = "Tender" /\ submitted = {}
NextAuthor == \E p \in SerialProcs :
    \/ CallBidNewAny(p, MaxNew) \/ CallBidStatus(p, MaxNew) \/ CallBidSetStatus(p, MaxNew)
    \/ CallBidEdit(p, MaxNew, MaxVersion) \/ CallBidRollback(p, MaxRows, MaxVersion)
    \/ Begin(p) \/ ValidateAuthorId(p) \/ InsertBid(p) \/ Validate(p) \/ Bid(p)
    \/ Authorize(p) \/ BidSetStatus(p) \/ UpdateBid(p) \/ SaveBid(p) \/ RecoverBid(p)
    \/ Commit(p) \/ Rollback(p) \/ Return(p) \/ StoreFail(p)
SpecAuthor == InitAuthor /\ [][NextAuthor]_vars

\* ================================================================ properties
\* The request of worker p has returned (its deferred Rollback has run).
Succeeded(p, ops) == pc[p] = "done" /\ loc[p].err = ErrNil /\ loc[p].op \in ops
Failed(p, ops) == pc[p] = "done" /\ loc[p].err # ErrNil /\ loc[p].op \in ops

Entity(rows, id) == {r \in rows : r.Id = id}
Snapshot(history, id, version) == {h \in history : h.Id = id /\ h.Version = version}

\* An entity made by New: it is at version 1, or was (its version 1 is in the
\* history; a row inserted by Rollback starts above version 1).
FromNew(rows, history, id) ==
    \E r \in Entity(rows, id) : r.Version = 1 \/ Snapshot(history, id, 1) # {}

\* One successful Edit or Rollback on id, from the tables before to those after.
VersionStep(before, after, history, id) ==
    \A old \in Entity(before, id) :
        /\ \A new \in Entity(after, id) : new.Version = old.Version + 1
        /\ \A v \in 1..old.Version : Snapshot(history, id, v) # {}
        /\ Snapshot(history, id, old.Version + 1) = {}

\* C1: every successful Edit or Rollback on a tender or bid made by New
\* raises the version stored under its id by one (so N of them leave version
\* 1 + N), with every version below the new one in the history and the new
\* one not.
C1_VersionMonotonicity ==
    \A p \in Procs :
        /\ Succeeded(p, {"Tender.Edit", "Tender.Rollback"})
              /\ FromNew(pre[p].tender, pre[p].rollback_tender, loc[p].id)
           => VersionStep(pre[p].tender, tender, rollback_tender, loc[p].id)
        /\ Succeeded(p, {"Bid.Edit", "Bid.Rollback"})
              /\ FromNew(pre[p].bid, pre[p].rollback_bid, loc[p].id)
           => VersionStep(pre[p].bid, bid, rollback_bid, loc[p].id)

\* C2: a SubmitDecision that returns nil with an inconclusive summary has
\* stored the requester's decision and left the bid as it was.
C2_InconclusiveVoteCommitted ==
    \A p \in Procs :
        Succeeded(p, {"Bid.SubmitDecision"}) /\ loc[p].summary = "null"
        => /\ [UserId |-> EmployeeId(loc[p].username), BidId |-> loc[p].id,
               Decision |-> loc[p].decision] \in decision
           /\ Entity(bid, loc[p].id) = Entity(pre[p].bid, loc[p].id)

\* The users whose last successful SubmitDecision on bid id was d.
Submitters(id, d) == {s.UserId : s \in {x \in submitted : x.BidId = id /\ x.Decision = d}}

\* The organization of the tender of bid id.
OrgOfBid(id) ==
    {t.OrgId : t \in {x \in tender : \E b \in Entity(bid, id) : b.TenderId = x.Id}}

\* C3: once three users have submitted Approved on a bid with success and
\* none Rejected, the tender's organization having three representatives or
\* more, the call of the third has the summary Approved and the bid Canceled.
C3_QuorumAccumulates ==
    \A p \in Procs :
        /\ Succeeded(p, {"Bid.SubmitDecision"})
        /\ Cardinality(Submitters(loc[p].id, Approved)) >= 3
        /\ Submitters(loc[p].id, Rejected) = {}
        /\ \A o \in OrgOfBid(loc[p].id) : CountResponsible(o) >= 3
        => /\ loc[p].summary = Approved
           /\ \A b \in Entity(bid, loc[p].id) : b.Status = BidCanceled

\* C4: at every call SubmitDecision, Feedback, Reviews and List make on the
\* store, their final Commit included, the transaction they began is open.
C4_OneTransaction ==
    \A p \in Procs :
        /\ loc[p].op \in {"Bid.SubmitDecision", "Bid.Feedback", "Bid.Reviews", "Bid.List"}
        /\ pc[p] \in StoreCalls
        => TxOpen(p)

TenderContent(t) == <<t.OrgId, t.Name, t.Desc, t.ServiceType>>
BidContent(b) == <<b.TenderId, b.Name, b.Desc, b.AuthorType, b.AuthorId>>

\* C5: a successful Rollback to version V of an entity at version C > V
\* stores and returns an entity at version C + 1 with the content of the
\* snapshot at V and the status the entity had at C.
C5_RollbackForwardOnly ==
    \A p \in Procs :
        /\ Succeeded(p, {"Tender.Rollback"})
           => \A old \in Entity(pre[p].tender, loc[p].id) :
                 loc[p].version < old.Version
                 => /\ loc[p].retTender \in tender
                    /\ loc[p].retTender.Version = old.Version + 1
                    /\ loc[p].retTender.Status = old.Status
                    /\ \E h \in Snapshot(pre[p].rollback_tender, loc[p].id, loc[p].version) :
                          TenderContent(loc[p].retTender) = TenderContent(h)
        /\ Succeeded(p, {"Bid.Rollback"})
           => \A old \in Entity(pre[p].bid, loc[p].id) :
                 loc[p].version < old.Version
                 => /\ loc[p].retBid \in bid
                    /\ loc[p].retBid.Version = old.Version + 1
                    /\ loc[p].retBid.Status = old.Status
                    /\ \E h \in Snapshot(pre[p].rollback_bid, loc[p].id, loc[p].version) :
                          BidContent(loc[p].retBid) = BidContent(h)

\* A tender edited and published at version 2 has been rolled back to its
\* version 1, whose snapshot differs from it in content and in status.
C5_Witness ==
    \E p \in Procs :
        /\ Succeeded(p, {"Tender.Rollback"})
        /\ \E old \in Entity(pre[p].tender, loc[p].id) :
              \E h \in Snapshot(pre[p].rollback_tender, loc[p].id, loc[p].version) :
                  /\ loc[p].version < old.Version
                  /\ h.Status # old.Status
                  /\ TenderContent(h) # TenderContent(old)

\* C6: after a successful Edit of an entity at version C the history has one
\* snapshot (id, C): the entity as it was before the edit, field by field.
C6_ArchiveCompleteness ==
    \A p \in Procs :
        /\ Succeeded(p, {"Tender.Edit"})
           => \A old \in Entity(pre[p].tender, loc[p].id) :
                 Snapshot(rollback_tender, loc[p].id, old.Version) = {old}
        /\ Succeeded(p, {"Bid.Edit"})
           => \A old \in Entity(pre[p].bid, loc[p].id) :
                 Snapshot(rollback_bid, loc[p].id, old.Version) = {old}

\* A published tender has been edited with a patch that changes it.
C6_Witness ==
    \E p \in Procs :
        /\ Succeeded(p, {"Tender.Edit"})
        /\ \E old \in Entity(pre[p].tender, loc[p].id) :
              /\ old.Status = TenderPublished
              /\ TenderContent(loc[p].retTender) # TenderContent(old)
              /\ old \in rollback_tender

\* The rule of the quorum over the decisions D recorded for the bid and the
\* size n of the organization.
QuorumRule(D, n) ==
    LET approved == Cardinality({i \in DOMAIN D : D[i].Decision = Approved})
    IN  CASE \E i \in DOMAIN D : D[i].Decision = Rejected -> Rejected
          [] approved >= (IF n < 3 THEN n ELSE 3) -> Approved
          [] OTHER -> "null"

\* C7: the summary SubmitDecision computes is Rejected if a decision of the
\* bid is Rejected, else Approved if the Approved ones are min(n, 3) or more,
\* else inconclusive; an organization of more than 3 needs no more than 3.
C7_QuorumRule ==
    [][\A p \in Procs :
          pc[p] = "Summary" /\ pc'[p] # "Summary"
          => loc'[p].summary = QuorumRule(loc[p].decisions, loc[p].orgSize)]_vars

\* Three Approved and no Rejected in an organization of more than three: the
\* summary is Approved.
C7_Witness ==
    \E p \in Procs :
        /\ pc[p] = "UpdateBid" /\ loc[p].op = "Bid.SubmitDecision"
        /\ loc[p].summary = Approved
        /\ loc[p].orgSize > 3 /\ Len(loc[p].decisions) = 3

MutatingOps ==
    {"Tender.New", "Tender.Edit", "Tender.SetStatus", "Tender.Rollback",
     "Bid.New", "Bid.Edit", "Bid.SetStatus", "Bid.Rollback",
     "Bid.SubmitDecision", "Bid.Feedback"}

\* C8: a mutating operation that returned an error has left the committed
\* tenders, bids, histories, decisions and reviews as they were at its call.
C8_AtomicOnError ==
    \A p \in Procs : Failed(p, MutatingOps) => Committed = pre[p]

\* A Rollback failed after it had written the snapshot of the tender (its
\* last call on the store failed), and the snapshot was discarded.
C8_Witness ==
    \E p \in Procs :
        /\ Failed(p, {"Tender.Rollback"})
        /\ tx[p].state = "rolledback"
        /\ tx[p].rollback_tender # {} /\ tx[p].tender # {}
        /\ rollback_tender = {}

\* C9: the decision table never has two rows of one user on one bid, and a
\* successful SubmitDecision of a user whose earlier decision on the bid is
\* stored leaves one row for the pair, with the decision of this call.
C9_DecisionUpsert ==
    /\ \A r1, r2 \in decision : ByUserBid(r1) = ByUserBid(r2) => r1 = r2
    /\ \A p \in Procs :
          Succeeded(p, {"Bid.SubmitDecision"})
          => LET d == [UserId |-> EmployeeId(loc[p].username), BidId |-> loc[p].id,
                       Decision |-> loc[p].decision]
             IN  (\E r \in pre[p].decision : ByUserBid(r) = ByUserBid(d))
                 => {r \in decision : ByUserBid(r) = ByUserBid(d)} = {d}

BidAuthorOps == {"Bid.Status", "Bid.SetStatus", "Bid.Edit", "Bid.Rollback"}

\* The requesters the author of bid b admits: the employee who is the author,
\* or the employees responsible for the organization that is.
MayModify(username, b) ==
    \E e \in employee :
        /\ e.username = username
        /\ \/ b.AuthorType = User /\ e.id = b.AuthorId
           \/ /\ b.AuthorType = Organization
              /\ \E r \in organization_responsible :
                    r.organization_id = b.AuthorId /\ r.user_id = e.id

\* The requests of the author's operations on a stored bid b that have
\* returned: they succeeded only for a requester the author admits; for any
\* other the bids and their history are as before and the error is one of
\* Refused(username, validated) or that of a failed store call.
Refused(username, validated) ==
    IF validated /\ ~VerifyUser(username) THEN {ErrUserNotFound} ELSE {ErrNotEnoughPrivileges}

BidAuthorization(validated) ==
    \A p \in Procs :
        pc[p] = "done" /\ loc[p].op \in BidAuthorOps
        => \A b \in Entity(pre[p].bid, loc[p].id) :
              /\ loc[p].err = ErrNil => MayModify(loc[p].username, b)
              /\ ~MayModify(loc[p].username, b)
                 => /\ bid = pre[p].bid /\ rollback_bid = pre[p].rollback_bid
                    /\ loc[p].err \in Refused(loc[p].username, validated) \cup {ErrInternal}

\* C10 as stated: Status, SetStatus, Edit and Rollback of a bid succeed only
\* for the user who is its author or a user responsible for the organization
\* that is; every other requester gets NotEnoughPrivileges and the bids and
\* their history are unchanged.
C10_AsStated == BidAuthorization(FALSE)

\* C10, amended: ... every other requester who is an employee gets
\* NotEnoughPrivileges, a requester whose username is unknown gets
\* UserNotFound; the bids and their history are unchanged in both cases.
C10_BidAuthorization == BidAuthorization(TRUE)

\* An employee not responsible for the organization that authored the bid
\* asked to edit it and got NotEnoughPrivileges.
C10_Witness ==
    \E p \in Procs :
        /\ pc[p] = "done" /\ loc[p].op = "Bid.Edit"
        /\ loc[p].err = ErrNotEnoughPrivileges
        /\ \E b \in Entity(bid, loc[p].id) :
              b.AuthorType = Organization /\ ~MayModify(loc[p].username, b)

TenderAuthOps == {"Tender.Status", "Tender.SetStatus", "Tender.Edit", "Tender.Rollback"}

\* The requesters the organization of tender t admits: the employees
\* responsible for it.
MayManage(username, t) ==
    \E e \in employee :
        /\ e.username = username
        /\ \E r \in organization_responsible :
              r.organization_id = t.OrgId /\ r.user_id = e.id

\* The request failed on the store itself (Begin, or a call in the open
\* transaction), not on a check of the operation.
StoreFailed(p) ==
    loc[p].err = ErrInternal /\ tx[p].state \in {"none", "rolledback", "aborted"}

\* C11: Status, SetStatus, Edit and Rollback of a stored tender succeed only
\* for an employee responsible for the tender's organization; for any other
\* requester they return UserNotFound or NotEnoughPrivileges (or the store's
\* failure) and the tenders and their history are as before.
C11_TenderAuthorization ==
    \A p \in Procs :
        pc[p] = "done" /\ loc[p].op \in TenderAuthOps
        => \A t \in Entity(pre[p].tender, loc[p].id) :
              /\ loc[p].err = ErrNil => MayManage(loc[p].username, t)
              /\ ~MayManage(loc[p].username, t)
                 => /\ tender = pre[p].tender /\ rollback_tender = pre[p].rollback_tender
                    /\ \/ loc[p].err \in {ErrUserNotFound, ErrNotEnoughPrivileges}
                       \/ StoreFailed(p)

\* An employee responsible for another organization asked to edit the
\* tender and got NotEnoughPrivileges.
C11_Witness ==
    \E p \in Procs :
        /\ pc[p] = "done" /\ loc[p].op = "Tender.Edit"
        /\ loc[p].err = ErrNotEnoughPrivileges
        /\ VerifyUser(loc[p].username)
        /\ \E t \in Entity(tender, loc[p].id) : ~MayManage(loc[p].username, t)

\* The tender of the bid the SubmitDecision of p is about, at its call.
TenderOfBid(p) ==
    {t \in pre[p].tender : \E b \in Entity(pre[p].bid, loc[p].id) : b.TenderId = t.Id}

\* C12: SubmitDecision records a decision only for a requester responsible
\* for the organization of the bid's tender; the author of the bid who is not
\* gets NotEnoughPrivileges (or the store's failure) and the decisions are as
\* before.
C12_DecisionByTenderOwner ==
    \A p \in Procs :
        pc[p] = "done" /\ loc[p].op = "Bid.SubmitDecision"
        => \A t \in TenderOfBid(p) :
              ~MayManage(loc[p].username, t)
              => /\ decision = pre[p].decision
                 /\ loc[p].err # ErrNil
                 /\ \A b \in Entity(pre[p].bid, loc[p].id) :
                       MayModify(loc[p].username, b)
                       => loc[p].err = ErrNotEnoughPrivileges \/ StoreFailed(p)

\* C13: a Rollback by an authorized requester to a version of which the
\* history had no snapshot at the call returns VersionNotFound (or the
\* store's failure) and leaves the entities and the history as they were.
C13_RollbackMissingVersion ==
    \A p \in Procs :
        /\ pc[p] = "done" /\ loc[p].op = "Tender.Rollback"
              /\ (\E t \in Entity(pre[p].tender, loc[p].id) : MayManage(loc[p].username, t))
              /\ Snapshot(pre[p].rollback_tender, loc[p].id, loc[p].version) = {}
           => /\ loc[p].err = ErrVersionNotFound \/ StoreFailed(p)
              /\ tender = pre[p].tender /\ rollback_tender = pre[p].rollback_tender
        /\ pc[p] = "done" /\ loc[p].op = "Bid.Rollback"
              /\ (\E b \in Entity(pre[p].bid, loc[p].id) : MayModify(loc[p].username, b))
              /\ Snapshot(pre[p].rollback_bid, loc[p].id, loc[p].version) = {}
           => /\ loc[p].err = ErrVersionNotFound \/ StoreFailed(p)
              /\ bid = pre[p].bid /\ rollback_bid = pre[p].rollback_bid

\* C14: a successful SetStatus changes the status of the entity and nothing
\* else: version, content and the history are as before, and the entity
\* returned is the stored one, with the requested status.
C14_SetStatusOnlyStatus ==
    \A p \in Procs :
        /\ Succeeded(p, {"Tender.SetStatus"})
           => \A old \in Entity(pre[p].tender, loc[p].id) :
                 LET new == [old EXCEPT !.Status = loc[p].status]
                 IN  /\ tender = (pre[p].tender \ {old}) \cup {new}
                     /\ rollback_tender = pre[p].rollback_tender
                     /\ loc[p].retTender = new
        /\ Succeeded(p, {"Bid.SetStatus"})
           => \A old \in Entity(pre[p].bid, loc[p].id) :
                 LET new == [old EXCEPT !.Status = loc[p].status]
                 IN  /\ bid = (pre[p].bid \ {old}) \cup {new}
                     /\ rollback_bid = pre[p].rollback_bid
                     /\ loc[p].retBid = new

\* An edited tender (version 2, with a snapshot in the history) got another
\* status.
C14_Witness ==
    \E p \in Procs :
        /\ Succeeded(p, {"Tender.SetStatus"})
        /\ \E old \in Entity(pre[p].tender, loc[p].id) :
              /\ old.Status # loc[p].status
              /\ old.Version = 2
              /\ Snapshot(rollback_tender, old.Id, 1) # {}

\* Every snapshot of the history is still there after the step, the only one
\* of its (id, version).
SnapshotsKept(history, after) ==
    \A h \in history : Snapshot(after, h.Id, h.Version) = {h}

\* C15: a snapshot committed to the history is never changed or replaced: no
\* (id, version) has two snapshots, at one time or over time.
C15_HistoryImmutable ==
    /\ [](\A h \in rollback_tender : Snapshot(rollback_tender, h.Id, h.Version) = {h})
    /\ [](\A h \in rollback_bid : Snapshot(rollback_bid, h.Id, h.Version) = {h})
    /\ [][/\ SnapshotsKept(rollback_tender, rollback_tender')
          /\ SnapshotsKept(rollback_bid, rollback_bid')]_vars

\* The history has the versions 1 and 2 of a tender, of different content,
\* and the tender has been edited, its status set or rolled back since.
C15_Witness ==
    \E h1, h2 \in rollback_tender :
        /\ h1.Id = h2.Id /\ h1.Version = 1 /\ h2.Version = 2
        /\ TenderContent(h1) # TenderContent(h2)
        /\ \E t \in Entity(tender, h1.Id) : t.Version = 3

\* C17: a SubmitDecision with the summary Approved or Rejected leaves the bid
\* Canceled with its version, name, description, tender and author as
\* committed before, and writes no snapshot.
C17_ConclusiveOnlyStatus ==
    \A p \in Procs :
        Succeeded(p, {"Bid.SubmitDecision"}) /\ loc[p].summary \in DecisionTypes
        => \A old \in Entity(pre[p].bid, loc[p].id) :
              /\ bid = (pre[p].bid \ {old}) \cup {[old EXCEPT !.Status = BidCanceled]}
              /\ rollback_bid = pre[p].rollback_bid

\* The one representative of the tender's organization approved a bid that
\* was not canceled: the summary is Approved and the bid is Canceled.
C17_Witness ==
    \E p \in Procs :
        /\ Succeeded(p, {"Bid.SubmitDecision"}) /\ loc[p].summary = Approved
        /\ \E old \in Entity(pre[p].bid, loc[p].id) :
              /\ old.Status # BidCanceled
              /\ [old EXCEPT !.Status = BidCanceled] \in bid

\* The place of a status in Created -> Published -> Closed.
TenderStatusRank(st) ==
    CASE st = TenderCreated -> 1 [] st = TenderPublished -> 2 [] st = TenderClosed -> 3
      [] OTHER -> 0

\* C18: no successful operation of the Tender service moves the status of a
\* tender backwards or from Created straight to Closed.
C18_TenderStatusMachine ==
    \A p \in Procs :
        Succeeded(p, {"Tender.SetStatus", "Tender.Edit", "Tender.Rollback"})
        => \A old \in Entity(pre[p].tender, loc[p].id) :
              \A new \in Entity(tender, loc[p].id) :
                  LET from == TenderStatusRank(old.Status)
                      to == TenderStatusRank(new.Status)
                  IN  to = from \/ to = from + 1

\* C19: a successful Edit with an all-nil patch raises the version by one,
\* leaves status and content as they were and archives the entity of before
\* the edit, of the same content as the new one.
C19_NoOpEdit ==
    \A p \in Procs :
        /\ Succeeded(p, {"Tender.Edit"}) /\ loc[p].patch = NoPatch
           => \A old \in Entity(pre[p].tender, loc[p].id) :
                 /\ Entity(tender, loc[p].id) = {[old EXCEPT !.Version = @ + 1]}
                 /\ loc[p].retTender = [old EXCEPT !.Version = @ + 1]
                 /\ Snapshot(rollback_tender, loc[p].id, old.Version) = {old}
                 /\ TenderContent(old) = TenderContent(loc[p].retTender)
        /\ Succeeded(p, {"Bid.Edit"}) /\ loc[p].patch = NoPatch
           => \A old \in Entity(pre[p].bid, loc[p].id) :
                 /\ Entity(bid, loc[p].id) = {[old EXCEPT !.Version = @ + 1]}
                 /\ loc[p].retBid = [old EXCEPT !.Version = @ + 1]
                 /\ Snapshot(rollback_bid, loc[p].id, old.Version) = {old}
                 /\ BidContent(old) = BidContent(loc[p].retBid)

\* An edited tender (its name is not the one it was created with) has been
\* edited again with the all-nil patch.
C19_Witness ==
    \E p \in Procs :
        /\ Succeeded(p, {"Tender.Edit"}) /\ loc[p].patch = NoPatch
        /\ loc[p].retTender.Version = 3
        /\ \E h \in Snapshot(rollback_tender, loc[p].id, 1) : h.Name # loc[p].retTender.Name
        /\ \E h \in Snapshot(rollback_tender, loc[p].id, 2) : h.Name = loc[p].retTender.Name

\* Field f of entity old after a patch: the value of the patch if it is
\* not nil.
Patched(old, patch, f) == IF patch[f] # Null THEN patch[f] ELSE old[f]

\* C20: a successful Edit stores and returns the entity with the non-nil
\* fields of the patch overwritten and the version raised by one; id,
\* status, createdAt, the tender's organization, the bid's tender and author
\* are as before.
C20_EditFrame ==
    \A p \in Procs :
        /\ Succeeded(p, {"Tender.Edit"})
           => \A old \in Entity(pre[p].tender, loc[p].id) :
                 LET new == [Id |-> old.Id, OrgId |-> old.OrgId,
                             Name |-> Patched(old, loc[p].patch, "Name"),
                             Desc |-> Patched(old, loc[p].patch, "Desc"),
                             ServiceType |-> Patched(old, loc[p].patch, "ServiceType"),
                             Status |-> old.Status, Version |-> old.Version + 1,
                             CreatedAt |-> old.CreatedAt]
                 IN  Entity(tender, loc[p].id) = {new} /\ loc[p].retTender = new
        /\ Succeeded(p, {"Bid.Edit"})
           => \A old \in Entity(pre[p].bid, loc[p].id) :
                 LET new == [Id |-> old.Id, TenderId |-> old.TenderId,
                             Name |-> Patched(old, loc[p].patch, "Name"),
                             Desc |-> Patched(old, loc[p].patch, "Desc"),
                             AuthorType |-> old.AuthorType, AuthorId |-> old.AuthorId,
                             Version |-> old.Version + 1, Status |-> old.Status,
                             CreatedAt |-> old.CreatedAt]
                 IN  Entity(bid, loc[p].id) = {new} /\ loc[p].retBid = new

\* A published tender has been edited with a patch of a name, no description
\* and a service type.
C20_Witness ==
    \E p \in Procs :
        /\ Succeeded(p, {"Tender.Edit"})
        /\ loc[p].patch.Name # Null /\ loc[p].patch.Desc = Null
        /\ \E old \in Entity(pre[p].tender, loc[p].id) :
              /\ old.Status = TenderPublished
              /\ old.Name # loc[p].retTender.Name
              /\ old.Desc = loc[p].retTender.Desc

EditOps == {"Tender.Edit", "Bid.Edit"}
EditWrites == {"UpdateTender", "SaveTender", "UpdateBid", "SaveBid", "Commit"}

\* The version the Edit of q fetched, and the one the Edit of p returned.
ReadVersion(q) ==
    IF loc[q].op = "Tender.Edit" THEN loc[q].tender.Version ELSE loc[q].bid.Version
WrittenVersion(p) ==
    IF loc[p].op = "Tender.Edit" THEN loc[p].retTender.Version ELSE loc[p].retBid.Version

\* Two Edits of one entity read the same version C; the Edit of p has
\* committed version C + 1 and the Edit of q has its writes still to do.
Overtaken(p, q) ==
    /\ p # q /\ loc[p].op \in EditOps /\ loc[q].op = loc[p].op /\ loc[q].id = loc[p].id
    /\ pc[p] \in {"defer", "done"} /\ loc[p].err = ErrNil
    /\ pc[q] \in EditWrites
    /\ WrittenVersion(p) = ReadVersion(q) + 1

\* C16 as stated: of two Edits that read the same version of an entity,
\* neither is rejected: the later writer goes on to overwrite the row.
C16_AsStated ==
    [][\A p, q \in Procs : Overtaken(p, q) => loc'[q].err = ErrNil]_vars

\* C16, amended: of two Edits that read the same version C of an entity,
\* the later writer is rejected: its snapshot (id, C) meets the one the
\* first committed, the Edit returns an internal error and never commits,
\* and the entities and the history stay as the first Edit left them.
C16_ConcurrentEdit ==
    [][\A p, q \in Procs :
          Overtaken(p, q)
          => /\ pc[q] # "Commit"
             /\ pc[q] \in {"SaveTender", "SaveBid"} /\ pc'[q] # pc[q]
                => pc'[q] = "defer" /\ loc'[q].err = ErrInternal
             /\ tender' = tender /\ rollback_tender' = rollback_tender
             /\ bid' = bid /\ rollback_bid' = rollback_bid]_vars

\* Two Edits of the tender with different patches were called on the same
\* committed tender: one returned nil and its tender is the stored one, the
\* other returned an internal error.
C16_Witness ==
    \E p, q \in Procs :
        /\ Succeeded(p, {"Tender.Edit"}) /\ Failed(q, {"Tender.Edit"})
        /\ loc[q].id = loc[p].id /\ loc[q].patch # loc[p].patch
        /\ loc[q].err = ErrInternal
        /\ pre[q].tender = pre[p].tender
        /\ Entity(tender, loc[p].id) = {loc[p].retTender}
        /\ \A old \in Entity(pre[p].tender, loc[p].id) :
              loc[p].retTender.Version = old.Version + 1

\* C21: a successful Tender.New or Bid.New adds one entity, the one it
\* returns: of a new id, with the fields of the request, version 1, status
\* Created and no snapshot in the history; a Tender.New of an unknown
\* creator returns UserNotFound (or the store's failure) and adds nothing.
C21_Creation ==
    \A p \in Procs :
        /\ Succeeded(p, {"Tender.New"})
           => LET t == loc[p].retTender
              IN  /\ tender = pre[p].tender \cup {t} /\ Entity(pre[p].tender, t.Id) = {}
                  /\ t.Version = 1 /\ t.Status = TenderCreated
                  /\ TenderContent(t) = <<loc[p].tenderNew.OrgId, loc[p].tenderNew.Name,
                                          loc[p].tenderNew.Desc, loc[p].tenderNew.ServiceType>>
                  /\ {h \in rollback_tender : h.Id = t.Id} = {}
        /\ Succeeded(p, {"Bid.New"})
           => LET b == loc[p].retBid
              IN  /\ bid = pre[p].bid \cup {b} /\ Entity(pre[p].bid, b.Id) = {}
                  /\ b.Version = 1 /\ b.Status = BidCreated
                  /\ BidContent(b) = <<loc[p].bidNew.TenderId, loc[p].bidNew.Name,
                                       loc[p].bidNew.Desc, loc[p].bidNew.AuthorType,
                                       loc[p].bidNew.AuthorId>>
                  /\ {h \in rollback_bid : h.Id = b.Id} = {}
        /\ pc[p] = "done" /\ loc[p].op = "Tender.New" /\ ~VerifyUser(loc[p].username)
           => /\ loc[p].err = ErrUserNotFound \/ StoreFailed(p)
              /\ tender = pre[p].tender

\* A bid has been created on a stored tender.
C21_Witness ==
    \E p \in Procs :
        /\ Succeeded(p, {"Bid.New"})
        /\ loc[p].retBid \in bid /\ loc[p].retBid.Version = 1
        /\ Entity(tender, loc[p].retBid.TenderId) # {}

\* C22: a Bid.New whose author is a user id of no employee returns
\* UserNotFound, one whose author is an organization id of no organization
\* returns OrganizationNotFound (or the store's failure); no bid is added.
C22_BidNewAuthor ==
    \A p \in Procs :
        pc[p] = "done" /\ loc[p].op = "Bid.New"
        => LET n == loc[p].bidNew
           IN  /\ n.AuthorType = User /\ (\A e \in employee : e.id # n.AuthorId)
                  => /\ loc[p].err = ErrUserNotFound \/ StoreFailed(p)
                     /\ bid = pre[p].bid
               /\ n.AuthorType = Organization /\ n.AuthorId \notin organization
                  => /\ loc[p].err = ErrOrganizationNotFound \/ StoreFailed(p)
                     /\ bid = pre[p].bid

\* A bid of an unknown organization on a stored tender has been refused.
C22_Witness ==
    \E p \in Procs :
        /\ pc[p] = "done" /\ loc[p].op = "Bid.New"
        /\ loc[p].err = ErrOrganizationNotFound
        /\ Entity(tender, loc[p].bidNew.TenderId) # {}

\* The employees of the identity store responsible for organization orgId.
Representatives(orgId) ==
    {e \in employee :
        \E r \in organization_responsible : r.organization_id = orgId /\ r.user_id = e.id}

\* C23: OrgSize asked about an organization without representatives fails
\* with OrganizationNotFound: it returns no size of 0.
C23_OrgSizeOfNone ==
    [][\A p \in Procs :
          pc[p] = "OrgSize" /\ pc'[p] # "OrgSize"
             /\ Representatives(loc[p].tender.OrgId) = {}
          => loc'[p].err = ErrOrganizationNotFound /\ pc'[p] = "defer"]_vars

\* C24: Permission returns NotEnoughPrivileges exactly when the user is not
\* responsible for the organization and nil exactly when it is, but for a
\* failed call on the store, which gives the wrapped error: never nil.
C24_Permission ==
    [][\A p \in Procs :
          pc[p] = "Permission" /\ pc'[p] # "Permission"
          => LET member == \E e \in Representatives(loc[p].tender.OrgId) :
                               e.username = loc[p].username
             IN  /\ member => \/ pc'[p] = After(loc[p].op, "Permission") /\ loc'[p].err = ErrNil
                              \/ pc'[p] = "defer" /\ loc'[p].err = ErrInternal
                 /\ ~member => /\ pc'[p] = "defer"
                               /\ loc'[p].err \in {ErrNotEnoughPrivileges, ErrInternal}]_vars

\* SetStatus has passed the Permission of a representative of the tender's
\* organization, and goes on to the update.
C24_Witness ==
    \E p \in Procs :
        /\ loc[p].op = "Tender.SetStatus" /\ pc[p] = "TenderSetStatus"
        /\ loc[p].err = ErrNil
        /\ \E e \in Representatives(loc[p].tender.OrgId) : e.username = loc[p].username

C26_Feedback ==
    \A p \in Procs :
        pc[p] = "done" /\ loc[p].op = "Bid.Feedback"
        => \A t \in TenderOfBid(p) :
              /\ bid = pre[p].bid /\ rollback_bid = pre[p].rollback_bid
              /\ MayManage(loc[p].username, t)
                 => \/ StoreFailed(p) /\ review = pre[p].review
                    \/ /\ loc[p].err = ErrNil
                       /\ \E r \in review \ pre[p].review :
                             /\ review = pre[p].review \cup {r}
                             /\ r.BidId = loc[p].id /\ r.AuthorName = loc[p].username
                             /\ r.Desc = loc[p].status
              /\ ~MayManage(loc[p].username, t) /\ VerifyUser(loc[p].username)
                 => /\ loc[p].err = ErrNotEnoughPrivileges \/ StoreFailed(p)
                    /\ review = pre[p].review

\* C27: the deferred Rollback, failing or not, leaves the result and the
\* error of the operation and the committed tables as they are (what a
\* Commit stored stays stored), and every operation that began a transaction
\* returns through it.
C27_CleanupKeepsResult ==
    [][\A p \in Procs :
          /\ pc[p] = "defer" /\ pc'[p] # "defer"
             => /\ pc'[p] = "done" /\ loc'[p] = loc[p]
                /\ <<tender, rollback_tender, bid, rollback_bid, decision, review>>' =
                       <<tender, rollback_tender, bid, rollback_bid, decision, review>>
          /\ pc[p] # "done" /\ pc'[p] = "done"
             => pc[p] = "defer" \/ (pc[p] = "Begin" /\ tx[p].state = "none")]_vars

\* An Edit has committed and its deferred Rollback has run: the tender it
\* returned is the stored one, its snapshot is in the history.
C27_Witness ==
    \E p \in Procs :
        /\ Succeeded(p, {"Tender.Edit"})
        /\ tx[p].state = "committed"
        /\ loc[p].retTender \in tender /\ loc[p].retTender.Version = 2
        /\ Snapshot(rollback_tender, loc[p].id, 1) # {}

\* C28: a successful Rollback of entity id at version C leaves, under the
\* same id, the entity at version C + 1 with the content of the snapshot; it
\* returns that entity, with the id and createdAt of the original, and the
\* table has no entity of another id more than before.
C28_RollbackKeepsIdentity ==
    \A p \in Procs :
        /\ Succeeded(p, {"Tender.Rollback"})
           => \A old \in Entity(pre[p].tender, loc[p].id) :
                 /\ loc[p].retTender.Id = old.Id
                 /\ loc[p].retTender.CreatedAt = old.CreatedAt
                 /\ Entity(tender, loc[p].id) = {loc[p].retTender}
                 /\ loc[p].retTender.Version = old.Version + 1
                 /\ {r.Id : r \in tender} = {r.Id : r \in pre[p].tender}
        /\ Succeeded(p, {"Bid.Rollback"})
           => \A old \in Entity(pre[p].bid, loc[p].id) :
                 /\ loc[p].retBid.Id = old.Id
                 /\ loc[p].retBid.CreatedAt = old.CreatedAt
                 /\ Entity(bid, loc[p].id) = {loc[p].retBid}
                 /\ loc[p].retBid.Version = old.Version + 1
                 /\ {r.Id : r \in bid} = {r.Id : r \in pre[p].bid}

\* C29: an Edit or a Rollback about to archive the entity it fetched never
\* finds a snapshot of the entity's id and version in the history (left
\* there by a Rollback): it is not rejected for it.
C29_AvailableAfterRollback ==
    \A p \in Procs :
        /\ pc[p] = "SaveTender"
           => Snapshot(rollback_tender, loc[p].tender.Id, loc[p].tender.Version) = {}
        /\ pc[p] = "SaveBid"
           => Snapshot(rollback_bid, loc[p].bid.Id, loc[p].bid.Version) = {}

UsernameOps ==
    {"Tender.New", "Tender.Status", "Tender.SetStatus", "Tender.Edit", "Tender.Rollback",
     "Bid.SubmitDecision", "Bid.List", "Bid.Status", "Bid.SetStatus", "Bid.Edit",
     "Bid.Rollback", "Bid.Reviews", "Bid.Feedback"}
OnTender == TenderAuthOps \cup {"Bid.List", "Bid.Reviews"}
OnBid == BidAuthorOps \cup {"Bid.SubmitDecision", "Bid.Feedback"}

\* The entity the request of p is about was not stored when it was called.
Missing(p) ==
    \/ loc[p].op \in OnTender /\ Entity(pre[p].tender, loc[p].id) = {}
    \/ loc[p].op \in OnBid /\ Entity(pre[p].bid, loc[p].id) = {}

\* C30: an operation called with a username is past its Validate (at a
\* lookup, a permission check or a write) only for a known username; for an
\* unknown one it returns UserNotFound, also when the entity is missing; for
\* a known one and a missing entity it returns the not-found error of the
\* entity (Reviews of an unknown author: AuthorNotFound), no privilege error
\* (the store's failure aside).
C30_ValidateFirst ==
    \A p \in Procs :
        loc[p].op \in UsernameOps
        => /\ pc[p] \notin {"idle", "Begin", "Validate", "defer", "done"}
              => VerifyUser(loc[p].username)
           /\ pc[p] = "done" /\ ~VerifyUser(loc[p].username)
              => loc[p].err = ErrUserNotFound \/ StoreFailed(p)
           /\ pc[p] = "done" /\ VerifyUser(loc[p].username) /\ Missing(p)
              => \/ StoreFailed(p)
                 \/ loc[p].op \in OnTender /\ loc[p].err = ErrTenderNotFound
                 \/ loc[p].op \in OnBid /\ loc[p].err = ErrBidNotFound
                 \/ /\ loc[p].op = "Bid.Reviews" /\ ~VerifyUser(loc[p].author)
                    /\ loc[p].err = ErrAuthorNotFound

\* An unknown user asked to set the status of a tender that is not stored,
\* and got UserNotFound.
C30_Witness ==
    \E p \in Procs :
        /\ pc[p] = "done" /\ loc[p].op = "Tender.SetStatus"
        /\ ~VerifyUser(loc[p].username) /\ Entity(tender, loc[p].id) = {}
        /\ loc[p].err = ErrUserNotFound

\* C31: under concurrent Bid.Edit and conclusive Bid.SubmitDecision on one
\* bid the committed version of the bid never decreases, and the Commit of a
\* decision leaves the committed name and description of the bid as they are.
C31_VersionUnderRace ==
    [][/\ \A r \in bid, s \in bid' : r.Id = s.Id => s.Version >= r.Version
       /\ \A p \in Procs :
             pc[p] = "Commit" /\ pc'[p] = "defer" /\ loc[p].op = "Bid.SubmitDecision"
             => \A r \in bid, s \in bid' :
                   r.Id = s.Id => s.Name = r.Name /\ s.Desc = r.Desc]_vars

\* C32: once an Edit and a SetStatus of the same tender (or bid) have both
\* returned nil, the status of the entity is the one SetStatus was given.
C32_EditKeepsStatus ==
    \A p, q \in Procs :
        /\ Succeeded(p, {"Tender.Edit"}) /\ Succeeded(q, {"Tender.SetStatus"})
              /\ loc[p].id = loc[q].id
           => \A r \in Entity(tender, loc[q].id) : r.Status = loc[q].status
        /\ Succeeded(p, {"Bid.Edit"}) /\ Succeeded(q, {"Bid.SetStatus"})
              /\ loc[p].id = loc[q].id
           => \A r \in Entity(bid, loc[q].id) : r.Status = loc[q].status

\* C33: once concurrent SubmitDecision calls of distinct authorized users
\* have all returned, and the Approved decisions they submitted with success
\* on the bid are at least min(orgSize, 3) with no Rejected among them, the
\* bid is Canceled.
C33_ConcurrentQuorum ==
    (/\ \A p \in Procs : pc[p] = "done" /\ loc[p].op = "Bid.SubmitDecision"
     /\ \A p \in Procs : Succeeded(p, {"Bid.SubmitDecision"}) => loc[p].decision = Approved)
    => \A b \in bid : \A o \in OrgOfBid(b.Id) :
          Cardinality({loc[p].username :
                          p \in {q \in Procs : /\ Succeeded(q, {"Bid.SubmitDecision"})
                                                /\ loc[q].id = b.Id}})
             >= RequiredApproves(CountResponsible(o))
          => b.Status = BidCanceled

\* C34: when SubmitDecision returns with the outcome Approved the bid is
\* Canceled, no Rejected is recorded for it and the users with a recorded
\* Approved are min(orgSize, 3) or more; and the decisions a call tallies
\* hold one decision per user, the requester's being the one just submitted
\* (an earlier Rejected of the requester is not in the tally).
C34_ApprovalByDistinctUsers ==
    \A p \in Procs :
        /\ Succeeded(p, {"Bid.SubmitDecision"}) /\ loc[p].summary = Approved
           => \A b \in Entity(bid, loc[p].id) :
                 LET rows == {r \in decision : r.BidId = b.Id}
                     approvers == {r.UserId : r \in {x \in rows : x.Decision = Approved}}
                 IN  /\ b.Status = BidCanceled
                     /\ \A r \in rows : r.Decision # Rejected
                     /\ \A o \in OrgOfBid(b.Id) :
                           Cardinality(approvers) >=
                              (IF CountResponsible(o) < 3 THEN CountResponsible(o) ELSE 3)
        /\ pc[p] = "Summary" /\ loc[p].op = "Bid.SubmitDecision"
           => LET D == loc[p].decisions
              IN  /\ \A i, j \in DOMAIN D : D[i].UserId = D[j].UserId => i = j
                  /\ \A i \in DOMAIN D :
                        D[i].UserId = loc[p].userId => D[i].Decision = loc[p].decision

\* A user whose Rejected was recorded submits Approved, and the outcome is
\* Approved.
C34_Witness ==
    \E p \in Procs :
        /\ Succeeded(p, {"Bid.SubmitDecision"}) /\ loc[p].summary = Approved
        /\ \E r \in pre[p].decision :
              /\ r.UserId = EmployeeId(loc[p].username) /\ r.BidId = loc[p].id
              /\ r.Decision = Rejected

\* C35: when SubmitDecision is about to compute the summary, its transaction
\* is still the one it began, the requester is responsible for the
\* organization of the tender, the size of the organization it read is 1 or
\* more and the approvals it requires are 1, 2 or 3.
C35_QuorumNeverZero ==
    \A p \in Procs :
        pc[p] = "Summary" /\ loc[p].op = "Bid.SubmitDecision"
        => /\ TxOpen(p)
           /\ VerifyUserPermission(loc[p].username, loc[p].tender.OrgId)
           /\ loc[p].tender.Id = loc[p].bid.TenderId
           /\ loc[p].orgSize >= 1
           /\ (IF loc[p].orgSize < 3 THEN loc[p].orgSize ELSE 3) \in 1..3

\* The only representative of an organization is about to have the summary
\* computed: one approval is required.
C35_Witness ==
    \E p \in Procs :
        /\ pc[p] = "Summary" /\ loc[p].op = "Bid.SubmitDecision"
        /\ loc[p].orgSize = 1 /\ loc[p].decision = Approved

\* C36: the summary SubmitDecision computes from the decisions the store
\* returned is the summary of every other order of the same decisions, the
\* size of the organization being the same.
C36_OrderIndependent ==
    [][\A p \in Procs :
          pc[p] = "Summary" /\ pc'[p] # "Summary"
          => LET D == loc[p].decisions
             IN  \A s \in Orders({D[i] : i \in DOMAIN D}) :
                    Summarize(s, loc[p].orgSize) = loc'[p].summary]_vars

\* A summary computed from decisions that begin with an Approved and hold a
\* Rejected further on.
C36_Witness ==
    \E p \in Procs :
        /\ pc[p] = "UpdateBid" /\ loc[p].op = "Bid.SubmitDecision"
        /\ loc[p].summary = Rejected
        /\ Len(loc[p].decisions) >= 2
        /\ loc[p].decisions[1].Decision = Approved
        /\ loc[p].orgSize = 1

C38_SwapOrdering ==
    [][\A p \in Procs :
          /\ loc[p].op = "Tender.Rollback" /\ pc[p] = "SaveTender" /\ pc'[p] # "SaveTender"
             => \/ pc'[p] = "RecoverTender" /\ loc[p].tender \in tx'[p].rollback_tender
                \/ /\ pc'[p] = "defer" /\ loc'[p].err = ErrInternal
                   /\ loc'[p].newTender = NoTender /\ loc'[p].retTender = NoTender
          /\ loc[p].op = "Tender.Rollback" /\ pc[p] = "RecoverTender"
                /\ pc'[p] # "RecoverTender"
             => /\ loc[p].tender \in ViewRollbackTender(p)
                /\ \/ /\ pc'[p] = "InsertTender"
                      /\ loc'[p].newTender \in ViewRollbackTender(p)
                      /\ loc'[p].newTender.Id = loc[p].id
                      /\ loc'[p].newTender.Version = loc[p].version
                   \/ /\ pc'[p] = "defer" /\ loc'[p].retTender = NoTender
                      /\ \/ loc'[p].err = ErrInternal
                         \/ /\ loc'[p].err = ErrVersionNotFound
                            /\ Snapshot(ViewRollbackTender(p), loc[p].id, loc[p].version) = {}
          /\ loc[p].op = "Bid.Rollback" /\ pc[p] = "SaveBid" /\ pc'[p] # "SaveBid"
             => \/ pc'[p] = "RecoverBid" /\ loc[p].bid \in tx'[p].rollback_bid
                \/ /\ pc'[p] = "defer" /\ loc'[p].err = ErrInternal
                   /\ loc'[p].newBid = NoBid /\ loc'[p].retBid = NoBid
          /\ loc[p].op = "Bid.Rollback" /\ pc[p] = "RecoverBid" /\ pc'[p] # "RecoverBid"
             => /\ loc[p].bid \in ViewRollbackBid(p)
                /\ \/ /\ pc'[p] = "InsertBid"
                      /\ loc'[p].newBid \in ViewRollbackBid(p)
                      /\ loc'[p].newBid.Id = loc[p].id
                      /\ loc'[p].newBid.Version = loc[p].version
                   \/ /\ pc'[p] = "defer" /\ loc'[p].retBid = NoBid
                      /\ \/ loc'[p].err = ErrInternal
                         \/ /\ loc'[p].err = ErrVersionNotFound
                            /\ Snapshot(ViewRollbackBid(p), loc[p].id, loc[p].version) = {}]_vars

\* A Rollback has archived the tender at its current version and read the
\* snapshot of an earlier version, whose content differs.
C38_Witness ==
    \E p \in Procs :
        /\ pc[p] = "InsertTender" /\ loc[p].op = "Tender.Rollback"
        /\ loc[p].tender \in tx[p].rollback_tender
        /\ loc[p].newTender.Version = loc[p].version
        /\ loc[p].newTender.Version < loc[p].tender.Version
        /\ TenderContent(loc[p].newTender) # TenderContent(loc[p].tender)

====
